---- MODULE Spec2Model ----
(***************************************************************************)
(* Model of the monad-mcp LST handler (src/common/lst.rs): the protocol    *)
(* registry (LstProtocol), the resource-URI router (Lst::read_resource),   *)
(* the stake / unstake tools and the amount conversions they use.          *)
(*                                                                         *)
(* Representation.  A Rust string is a sequence of one-character strings,  *)
(* so that split('/'), comparison with a literal, prefix stripping and     *)
(* digit handling are computed as the code computes them.  Literal pieces  *)
(* of format!() templates in produced texts are kept as one element each.  *)
(* A U256 is its canonical decimal digit sequence (what U256::to_string    *)
(* prints), an Address the 40 lower-case hex digits of its 20 bytes.       *)
(***************************************************************************)
EXTENDS Integers, Sequences, FiniteSets, TLC

VARIABLES
    pc,      \* per session: "idle", "awaiting" (suspended in confirmations(1)), "done"
    req,     \* per session: the request being served
    res,     \* per session: the response of the finished invocation
    txs,     \* per session: transactions this invocation handed to send()
    rpc,     \* per session: read-only contract calls this invocation issued
    trace,   \* per session: the steps this invocation has gone through, in order
    epoch,   \* the chain: number of state changes so far
    ncalls,  \* invocations started so far
    lookup,  \* pure-function harness: an input string and what the registry made of it
    conv     \* pure-function harness: an amount on its way through format_units / parse_units

vars == <<pc, req, res, txs, rpc, trace, epoch, ncalls, lookup, conv>>

-----------------------------------------------------------------------------
(* Bounds *)

MaxCalls == 2
MaxEpoch == 1

Sessions == {"s1", "s2"}

-----------------------------------------------------------------------------
(* Generic string helpers *)

Rep(c, n) == [i \in 1..n |-> c]

DropFirst(s, n) == SubSeq(s, n + 1, Len(s))

StartsWith(s, p) == Len(s) >= Len(p) /\ SubSeq(s, 1, Len(p)) = p

IsInfix(p, s) == \E i \in 0..(Len(s) - Len(p)) : SubSeq(s, i + 1, i + Len(p)) = p

RECURSIVE JoinWith(_, _)
JoinWith(segs, sep) ==
    IF segs = <<>> THEN <<>>
    ELSE IF Len(segs) = 1 THEN segs[1]
    ELSE segs[1] \o <<sep>> \o JoinWith(Tail(segs), sep)

(* str::split('/'): n separators give n + 1 parts, the k-th part being what lies *)
(* between the (k-1)-th and the k-th separator                                    *)
split(s) ==
    LET seps   == {i \in 1..Len(s) : s[i] = "/"}
        n      == Cardinality(seps)
        sep(k) == IF k = 0 THEN 0
                  ELSE IF k = n + 1 THEN Len(s) + 1
                  ELSE CHOOSE i \in seps : Cardinality({j \in seps : j < i}) = k - 1
    IN [k \in 1..(n + 1) |-> SubSeq(s, sep(k - 1) + 1, sep(k) - 1)]

-----------------------------------------------------------------------------
(* String literals of the program *)

S_evm_networks == <<"e","v","m",":","/","/","n","e","t","w","o","r","k","s">>
S_evm          == <<"e","v","m",":">>
S_monadTestnet == <<"m","o","n","a","d","T","e","s","t","n","e","t">>
S_lsts         == <<"l","s","t","s">>
S_tvl          == <<"t","v","l">>
S_address      == <<"a","d","d","r","e","s","s">>
S_balance      == <<"b","a","l","a","n","c","e">>
S_aprMON       == <<"a","p","r","M","O","N">>
S_gMON         == <<"g","M","O","N">>
S_shMON        == <<"s","h","M","O","N">>

-----------------------------------------------------------------------------
(* Addresses (ethers Address = H160) *)

DecDigits == {"0","1","2","3","4","5","6","7","8","9"}
HexDigits == DecDigits \cup {"a","b","c","d","e","f","A","B","C","D","E","F"}

ToLower(c) ==
    CASE c = "A" -> "a" [] c = "B" -> "b" [] c = "C" -> "c"
      [] c = "D" -> "d" [] c = "E" -> "e" [] c = "F" -> "f"
      [] OTHER -> c

(* str::parse::<Address>(): optional 0x prefix, then exactly 40 hex digits *)
ParseAddress(s) ==
    LET body == IF StartsWith(s, <<"0","x">>) THEN DropFirst(s, 2) ELSE s
    IN IF Len(body) = 40 /\ \A i \in 1..40 : body[i] \in HexDigits
       THEN [ok |-> TRUE,  addr |-> [i \in 1..40 |-> ToLower(body[i])]]
       ELSE [ok |-> FALSE, addr |-> <<>>]

APRMON_ADDRESS ==
    ParseAddress(<<"0","x","b","2","f","8","2","D","0","f","3","8","d","c","4","5","3","D","5","9","6","A","d","4","0","A","3","7","7","9","9","4","4","6","C","c","8","9","2","7","4","A">>).addr

GMON_ADDRESS ==
    ParseAddress(<<"0","x","a","E","e","f","2","f","6","B","4","2","9","C","b","5","9","C","9","B","2","D","7","b","B","2","1","4","1","A","D","a","9","9","3","E","8","5","7","1","c","3">>).addr

GMON_STAKEMANAGER_ADDRESS ==
    ParseAddress(<<"0","x","2","c","9","C","9","5","9","5","1","6","e","9","A","A","E","d","B","2","C","7","4","8","2","2","4","a","4","1","2","4","9","2","0","2","c","a","8","B","E","7">>).addr

SHMON_ADDRESS ==
    ParseAddress(<<"0","x","3","a","9","8","2","5","0","F","9","8","D","d","3","8","8","C","2","1","1","2","0","6","9","8","3","4","5","3","8","3","7","C","8","3","6","5","B","D","c","1">>).addr

MONAD_TESTNET_CHAIN_ID == 10143

-----------------------------------------------------------------------------
(* Protocol registry: enum LstProtocol *)

LstProtocol == {"AprMON", "GMON", "SHMON"}

(* a plausible slip: gMON is displayed by its variant name *)
Display_Mut(p) ==
    CASE p = "AprMON" -> S_aprMON
      [] p = "GMON"   -> <<"G","M","O","N">>
      [] p = "SHMON"  -> S_shMON

(* impl fmt::Display for LstProtocol *)
Display(p) ==
    CASE p = "AprMON" -> S_aprMON
      [] p = "GMON"   -> S_gMON
      [] p = "SHMON"  -> S_shMON

(* a plausible slip: the match is made case-insensitive for the leading letters *)
try_from_Mut(value) ==
    CASE value = S_aprMON \/ value = <<"A","p","r","M","O","N">> -> [ok |-> TRUE, protocol |-> "AprMON", err |-> ""]
      [] value = S_gMON   -> [ok |-> TRUE,  protocol |-> "GMON",  err |-> ""]
      [] value = S_shMON  -> [ok |-> TRUE,  protocol |-> "SHMON", err |-> ""]
      [] OTHER            -> [ok |-> FALSE, protocol |-> "",      err |-> "Invalid LST protocol"]

(* impl TryFrom<&str> for LstProtocol *)
try_from(value) ==
    CASE value = S_aprMON -> [ok |-> TRUE,  protocol |-> "AprMON", err |-> ""]
      [] value = S_gMON   -> [ok |-> TRUE,  protocol |-> "GMON",   err |-> ""]
      [] value = S_shMON  -> [ok |-> TRUE,  protocol |-> "SHMON",  err |-> ""]
      [] OTHER            -> [ok |-> FALSE, protocol |-> "",       err |-> "Invalid LST protocol"]

(* #[derive(serde::Deserialize)] with #[serde(rename = ..)]: the protocol argument *)
(* of the stake and unstake tools                                                  *)
deserialize(value) ==
    CASE value = S_aprMON -> [ok |-> TRUE,  protocol |-> "AprMON", err |-> ""]
      [] value = S_gMON   -> [ok |-> TRUE,  protocol |-> "GMON",   err |-> ""]
      [] value = S_shMON  -> [ok |-> TRUE,  protocol |-> "SHMON",  err |-> ""]
      [] OTHER            -> [ok |-> FALSE, protocol |-> "",       err |-> "unknown variant"]

(* LstProtocol::address *)
address(p) ==
    CASE p = "AprMON" -> APRMON_ADDRESS
      [] p = "GMON"   -> GMON_STAKEMANAGER_ADDRESS
      [] p = "SHMON"  -> SHMON_ADDRESS

(* a plausible slip: gMON's token address confused with its stake manager *)
token_address_Mut(p) ==
    CASE p = "AprMON" -> APRMON_ADDRESS
      [] p = "GMON"   -> GMON_STAKEMANAGER_ADDRESS
      [] p = "SHMON"  -> SHMON_ADDRESS

(* LstProtocol::token_address *)
token_address(p) ==
    CASE p = "AprMON" -> APRMON_ADDRESS
      [] p = "GMON"   -> GMON_ADDRESS
      [] p = "SHMON"  -> SHMON_ADDRESS

(* LstProtocol::description *)
description(p) ==
    CASE p = "AprMON" -> <<"aPriori is the leading MEV-powered liquid staking platform on Monad.">>
      [] p = "GMON"   -> <<"Magma enables Monad token holders to earn staking rewards while remaining liquid through Magma's Liquid Staking token, gMON.">>
      [] p = "SHMON"  -> <<"shMONAD is an innovative Liquid Staking Token (LST) built on top of MON (Monad). Designed for users who wish to stake their MON while retaining liquidity, shMONAD allows holders to convert MON into shMON, bond their tokens within distinct policies, and later unbond them after an escrow period.">>

-----------------------------------------------------------------------------
(* U256 / I256 as decimal digit sequences *)

EtherDecimals == 18

DigitVal(c) ==
    CASE c = "0" -> 0 [] c = "1" -> 1 [] c = "2" -> 2 [] c = "3" -> 3 [] c = "4" -> 4
      [] c = "5" -> 5 [] c = "6" -> 6 [] c = "7" -> 7 [] c = "8" -> 8 [] c = "9" -> 9

DigitChr(n) == <<"0","1","2","3","4","5","6","7","8","9">>[n + 1]

(* the canonical form: no leading zeros, "0" for zero *)
StripZeros(d) ==
    IF \A i \in 1..Len(d) : d[i] = "0" THEN <<"0">>
    ELSE LET first == CHOOSE i \in 1..Len(d) :
                          d[i] # "0" /\ \A j \in 1..(i - 1) : d[j] = "0"
         IN SubSeq(d, first, Len(d))

(* a < b for digit sequences of equal length *)
LexLess(a, b) ==
    \E i \in 1..Len(a) :
        /\ DigitVal(a[i]) < DigitVal(b[i])
        /\ \A j \in 1..(i - 1) : a[j] = b[j]

LexLeq(a, b) == a = b \/ LexLess(a, b)

(* a <= b for canonical digit sequences *)
NumLeq(a, b) == Len(a) < Len(b) \/ (Len(a) = Len(b) /\ LexLeq(a, b))

(* 2^256 - 1, 2^256 and 2^255 *)
U256_MAX == <<"1","1","5","7","9","2","0","8","9","2","3","7","3","1","6","1","9","5","4","2","3","5","7","0","9","8","5","0","0","8","6","8","7","9","0","7","8","5","3","2","6","9","9","8","4","6","6","5","6","4","0","5","6","4","0","3","9","4","5","7","5","8","4","0","0","7","9","1","3","1","2","9","6","3","9","9","3","5">>
TWO_256  == <<"1","1","5","7","9","2","0","8","9","2","3","7","3","1","6","1","9","5","4","2","3","5","7","0","9","8","5","0","0","8","6","8","7","9","0","7","8","5","3","2","6","9","9","8","4","6","6","5","6","4","0","5","6","4","0","3","9","4","5","7","5","8","4","0","0","7","9","1","3","1","2","9","6","3","9","9","3","6">>
TWO_255  == <<"5","7","8","9","6","0","4","4","6","1","8","6","5","8","0","9","7","7","1","1","7","8","5","4","9","2","5","0","4","3","4","3","9","5","3","9","2","6","6","3","4","9","9","2","3","3","2","8","2","0","2","8","2","0","1","9","7","2","8","7","9","2","0","0","3","9","5","6","5","6","4","8","1","9","9","6","8">>

(* a - b on equal-length digit sequences, a >= b: digit k borrows exactly when *)
(* the digits of a after k are less than those of b                            *)
SubDigits(a, b) ==
    LET n         == Len(a)
        borrow(k) == IF LexLess(SubSeq(a, k + 1, n), SubSeq(b, k + 1, n)) THEN 1 ELSE 0
    IN [k \in 1..n |-> DigitChr((DigitVal(a[k]) - DigitVal(b[k]) - borrow(k) + 10) % 10)]

NumSub(a, b) ==
    LET bp == Rep("0", Len(a) - Len(b)) \o b
    IN StripZeros(SubDigits(a, bp))

(* U256::from_dec_str: every byte a decimal digit, no overflow; "" gives 0 *)
U256_from_dec_str(s) ==
    IF \E i \in 1..Len(s) : s[i] \notin DecDigits
    THEN [ok |-> FALSE, value |-> <<>>, err |-> "invalid character"]
    ELSE IF ~NumLeq(StripZeros(s), U256_MAX)
    THEN [ok |-> FALSE, value |-> <<>>, err |-> "invalid length"]
    ELSE [ok |-> TRUE, value |-> StripZeros(s), err |-> ""]

(* I256::from_dec_str: optional sign, then U256::from_dec_str, then the range check *)
I256_from_dec_str(s) ==
    LET neg  == Len(s) > 0 /\ s[1] = "-"
        body == IF Len(s) > 0 /\ s[1] \in {"-", "+"} THEN Tail(s) ELSE s
        abs  == U256_from_dec_str(body)
    IN IF ~abs.ok THEN [ok |-> FALSE, neg |-> FALSE, abs |-> <<>>, err |-> abs.err]
       ELSE IF neg /\ ~NumLeq(abs.value, TWO_255)
            THEN [ok |-> FALSE, neg |-> FALSE, abs |-> <<>>, err |-> "integer overflow"]
       ELSE IF ~neg /\ NumLeq(TWO_255, abs.value)
            THEN [ok |-> FALSE, neg |-> FALSE, abs |-> <<>>, err |-> "integer overflow"]
       ELSE [ok |-> TRUE, neg |-> neg /\ abs.value # <<"0">>, abs |-> abs.value, err |-> ""]

(* x * 10^k *)
MulPow10(d, k) == IF d = <<"0">> THEN d ELSE d \o Rep("0", k)

(* I256::into_raw: two's complement *)
I256_into_raw(neg, abs) == IF neg THEN NumSub(TWO_256, abs) ELSE abs

RemoveUnderscores(s) == SelectSeq(s, LAMBDA c : c # "_")

FindDot(s) ==
    IF \E i \in 1..Len(s) : s[i] = "."
    THEN CHOOSE i \in 1..Len(s) : s[i] = "." /\ \A j \in 1..(i - 1) : s[j] # "."
    ELSE 0

RemoveAt(s, i) == SubSeq(s, 1, i - 1) \o SubSeq(s, i + 1, Len(s))

ParsedU256(v)  == [kind |-> "ok", value |-> v, err |-> ""]
ParseErr(e)    == [kind |-> "err", value |-> <<>>, err |-> e]
ParsePanic     == [kind |-> "panic", value |-> <<>>, err |-> "arithmetic operation overflow"]

(* ethers::utils::parse_units(amount, "ether") followed by U256::from(ParseUnits), *)
(* as called in Lst::stake / Lst::unstake.  U256 multiplication panics on overflow; *)
(* I256 multiplication overflow is taken as the panic of a build with overflow      *)
(* checks.                                                                          *)
parse_units(amount) ==
    LET s0       == RemoveUnderscores(amount)
        negative == Len(s0) > 0 /\ s0[1] = "-"
        di       == FindDot(s0)
        s        == IF di > 0 THEN RemoveAt(s0, di) ELSE s0
        dec_len  == IF di > 0 THEN Len(s) - (di - 1) ELSE 0
        exponent == EtherDecimals
    IN IF dec_len > exponent
       THEN LET t == SubSeq(s, 1, Len(s) - (dec_len - exponent))
            IN IF negative
               THEN IF t = <<"-">> THEN ParsedU256(<<"0">>)
                    ELSE LET n == I256_from_dec_str(t)
                         IN IF n.ok THEN ParsedU256(I256_into_raw(n.neg, n.abs))
                                    ELSE ParseErr(n.err)
               ELSE LET u == U256_from_dec_str(t)
                    IN IF u.ok THEN ParsedU256(u.value) ELSE ParseErr(u.err)
       ELSE IF negative
       THEN IF s = <<"-">> THEN ParsedU256(<<"0">>)
            ELSE LET n == I256_from_dec_str(s)
                 IN IF ~n.ok THEN ParseErr(n.err)
                    ELSE LET m == MulPow10(n.abs, exponent - dec_len)
                         IN IF NumLeq(m, TWO_255)
                            THEN ParsedU256(I256_into_raw(n.neg, m))
                            ELSE ParsePanic
       ELSE LET u == U256_from_dec_str(s)
            IN IF ~u.ok THEN ParseErr(u.err)
               ELSE LET m == MulPow10(u.value, exponent - dec_len)
                    IN IF NumLeq(m, U256_MAX) THEN ParsedU256(m) ELSE ParsePanic

PadLeft(s, c, n) == IF Len(s) < n THEN Rep(c, n - Len(s)) \o s ELSE s

(* a plausible slip: the fractional part is printed without its leading zeros *)
format_units_Mut(amount) ==
    LET k        == EtherDecimals
        integer  == IF Len(amount) > k THEN SubSeq(amount, 1, Len(amount) - k) ELSE <<"0">>
        decimals == StripZeros(IF Len(amount) > k
                               THEN SubSeq(amount, Len(amount) - k + 1, Len(amount))
                               ELSE amount)
    IN integer \o <<".">> \o decimals

(* ethers::utils::format_units(amount, "ether"):                      *)
(* integer = amount / 10^18, decimals = (amount % 10^18).to_string(), *)
(* format!("{integer}.{decimals:0>18}")                               *)
format_units(amount) ==
    LET k        == EtherDecimals
        integer  == IF Len(amount) > k THEN SubSeq(amount, 1, Len(amount) - k) ELSE <<"0">>
        decimals == StripZeros(IF Len(amount) > k
                               THEN SubSeq(amount, Len(amount) - k + 1, Len(amount))
                               ELSE amount)
    IN integer \o <<".">> \o PadLeft(decimals, "0", k)

-----------------------------------------------------------------------------
(* Responses: Ok(ReadResourceResult), Ok(CallToolResult), Err(McpError), or a panic *)
(* of the handler task, after which no response is produced.                        *)

NoData == [uri |-> <<>>, error |-> <<>>]

NoResult == [kind |-> "none", code |-> "", text |-> <<>>, uri |-> <<>>, data |-> NoData]

(* ReadResourceResult { contents: vec![ResourceContents::text(text, uri)] } *)
Content(text, uri) ==
    [kind |-> "content", code |-> "", text |-> text, uri |-> uri, data |-> NoData]

(* CallToolResult::success(vec![Content::text(text)]) *)
ToolSuccess(text) ==
    [kind |-> "success", code |-> "", text |-> text, uri |-> <<>>, data |-> NoData]

(* McpError::resource_not_found / invalid_params / internal_error (message, data) *)
McpError(code, message, data) ==
    [kind |-> "error", code |-> code, text |-> message, uri |-> <<>>, data |-> data]

Panic == [kind |-> "panic", code |-> "", text |-> <<>>, uri |-> <<>>, data |-> NoData]

(* anyhow::Error: the chain of messages, outermost context first *)
Context(msg, e) == <<msg>> \o e

(* format!("{}", e) of an anyhow::Error prints the outermost message only *)
DisplayErr(e) == <<e[1]>>

-----------------------------------------------------------------------------
(* The chain and the RPC endpoint, as seen through the bindings *)

NetOutcomes == {"ok", "rpc_error", "revert"}

NetError(net) ==
    IF net = "revert" THEN <<"Contract call reverted with data: 0x">>
                      ELSE <<"error sending request for url (https://testnet-rpc.monad.xyz/)">>

ChainValues ==
    << <<"0">>,
       <<"1">>,
       <<"5","0","0","0","0","0","0","0","0","0","0","0","0","0","0","0">>,
       <<"1","5","0","0","0","0","0","0","0","0","0","0","0","0","0","0","0","0","0">>,
       U256_MAX >>

AddrIx(a) ==
    CASE a = APRMON_ADDRESS -> 0
      [] a = GMON_ADDRESS -> 1
      [] a = GMON_STAKEMANAGER_ADDRESS -> 2
      [] a = SHMON_ADDRESS -> 3
      [] OTHER -> 4

OwnerIx(args) ==
    IF args # <<>> /\ args[1][40] \in {"1","3","5","7","9","b","d","f"} THEN 1 ELSE 0

(* the value an eth_call of a view function returns at chain state e *)
ChainCall(to, fn, args, e) ==
    ChainValues[((AddrIx(to) + OwnerIx(args) + e) % Len(ChainValues)) + 1]

TxHashes == {Rep("a", 64), Rep("b", 64)}

(* ethers::utils::hex::encode_prefixed *)
encode_prefixed(h) == <<"0","x">> \o h

-----------------------------------------------------------------------------
(* Wallets *)

(* private_key.parse::<LocalWallet>(): optional 0x / 0X prefix, 32 bytes of hex, *)
(* a non-zero scalar                                                             *)
ParseWallet(s) ==
    LET body == IF StartsWith(s, <<"0","x">>) \/ StartsWith(s, <<"0","X">>)
                THEN DropFirst(s, 2) ELSE s
    IN IF \E i \in 1..Len(body) : body[i] \notin HexDigits
       THEN [ok |-> FALSE, key |-> <<>>, err |-> "Invalid character"]
       ELSE IF Len(body) % 2 = 1
       THEN [ok |-> FALSE, key |-> <<>>, err |-> "Odd number of digits"]
       ELSE IF Len(body) # 64
       THEN [ok |-> FALSE, key |-> <<>>, err |-> "Invalid string length"]
       ELSE IF \A i \in 1..64 : body[i] = "0"
       THEN [ok |-> FALSE, key |-> <<>>, err |-> "signature error"]
       ELSE [ok |-> TRUE, key |-> [i \in 1..64 |-> ToLower(body[i])], err |-> ""]

(* Signer::address(): stands for the secp256k1 / keccak256 derivation, of which *)
(* the model keeps only that it is a function of the key                        *)
WalletAddress(key) == [i \in 1..40 |-> key[i + 24]]

-----------------------------------------------------------------------------
(* Read-only contract calls *)

Ok(v)  == [ok |-> TRUE,  value |-> v,    err |-> <<>>]
Err(e) == [ok |-> FALSE, value |-> <<>>, err |-> e]

(* a plausible slip: the call is submitted with send() instead of call() *)
EthCall_Mut(to, fn, args, net, e) ==
    [method |-> "eth_sendRawTransaction", block |-> e,
     to |-> to, fn |-> fn, args |-> args, ok |-> net = "ok",
     value |-> IF net = "ok" THEN ChainCall(to, fn, args, e) ELSE <<>>]

(* ContractCall::call(): an eth_call evaluated at the latest block, here e *)
EthCall(to, fn, args, net, e) ==
    [method |-> "eth_call", block |-> e,
     to |-> to, fn |-> fn, args |-> args, ok |-> net = "ok",
     value |-> IF net = "ok" THEN ChainCall(to, fn, args, e) ELSE <<>>]

CallResult(c, net, ctx) ==
    IF c.ok THEN Ok(c.value) ELSE Err(Context(ctx, NetError(net)))

(* LstProtocol::read_balance *)
LstProtocol_read_balance(p, owner, net, e) ==
    LET c == EthCall(token_address(p), "balanceOf", <<owner>>, net, e)
    IN [call |-> c, result |-> CallResult(c, net, "Failed to get balance")]

(* a plausible slip: gMON's TVL is asked of the token instead of the stake manager *)
LstProtocol_tvl_Mut(p, net, e) ==
    LET c == CASE p = "AprMON" -> EthCall(token_address(p), "totalAssets", <<>>, net, e)
               [] p = "GMON"   -> EthCall(token_address(p), "calculateTVL", <<>>, net, e)
               [] p = "SHMON"  -> EthCall(token_address(p), "totalAssets", <<>>, net, e)
        ctx == IF p = "AprMON" THEN "Failed to get total assets"
                               ELSE "Failed to get total supply"
    IN [call |-> c, result |-> CallResult(c, net, ctx)]

(* LstProtocol::tvl *)
LstProtocol_tvl(p, net, e) ==
    LET c == CASE p = "AprMON" -> EthCall(token_address(p), "totalAssets", <<>>, net, e)
               [] p = "GMON"   -> EthCall(address(p), "calculateTVL", <<>>, net, e)
               [] p = "SHMON"  -> EthCall(token_address(p), "totalAssets", <<>>, net, e)
        ctx == IF p = "AprMON" THEN "Failed to get total assets"
                               ELSE "Failed to get total supply"
    IN [call |-> c, result |-> CallResult(c, net, ctx)]

WithContext(r, ctx) == IF r.ok THEN r ELSE Err(Context(ctx, r.err))

(* Lst::read_balance *)
Lst_read_balance(p, owner, net, e) ==
    LET r == LstProtocol_read_balance(p, owner, net, e)
    IN [call |-> r.call, result |-> WithContext(r.result, "Failed to read balance")]

(* a plausible slip: the TVL fetched first is kept and served again *)
Lst_protocol_tvl_Mut(p, net, e) ==
    LET r == LstProtocol_tvl(p, net, 0)
    IN [call |-> r.call, result |-> WithContext(r.result, "Failed to get TVL")]

(* Lst::protocol_tvl *)
Lst_protocol_tvl(p, net, e) ==
    LET r == LstProtocol_tvl(p, net, e)
    IN [call |-> r.call, result |-> WithContext(r.result, "Failed to get TVL")]

-----------------------------------------------------------------------------
(* Lst::read_resource: the URI router *)

(* what the handler did: its response and the contract calls it issued *)
Routed(r, calls) == [res |-> r, rpc |-> calls]

NotFound(uri) ==
    McpError("resource_not_found", <<"resource_not_found">>, [uri |-> uri, error |-> <<>>])

(* a plausible slip: the network error is the plain not-found of an unmatched URI *)
UnsupportedNetwork_Mut(uri) ==
    McpError("resource_not_found", <<"resource_not_found">>, [uri |-> uri, error |-> <<>>])

UnsupportedNetwork(uri) ==
    McpError("resource_not_found", <<"resource_not_found">>,
             [uri |-> uri, error |-> <<"Unsupported network">>])

InvalidParams(message) == McpError("invalid_params", message, NoData)

InternalError(message) == McpError("internal_error", message, NoData)

(* the listing literal "Available LST protocols: aprMON, gMON, shMON" *)
S_available ==
    <<"Available LST protocols: ">> \o S_aprMON \o <<", ">> \o S_gMON \o <<", ">> \o S_shMON

(* a plausible slip: the listing probes the endpoint before answering *)
ReadListing_Mut(uri) ==
    Routed(Content(S_available, uri),
           <<EthCall(APRMON_ADDRESS, "totalAssets", <<>>, "ok", 0)>>)

(* Pattern: evm://{network}/lsts *)
ReadListing(uri) ==
    Routed(Content(S_available, uri), <<>>)

(* a plausible slip: an unknown tag falls through to the final not-found *)
ReadDetail_Mut(uri, parts) ==
    LET lst_name == parts[5]
        protocol == try_from(lst_name)
    IN IF ~protocol.ok
       THEN Routed(NotFound(uri), <<>>)
       ELSE Routed(Content(description(protocol.protocol), uri), <<>>)

(* Pattern: evm://{network}/lsts/{lst} *)
ReadDetail(uri, parts) ==
    LET lst_name == parts[5]
        protocol == try_from(lst_name)
    IN IF ~protocol.ok
       THEN Routed(InvalidParams(<<"Failed to parse protocol '">> \o lst_name
                                 \o <<"': ", protocol.err>>), <<>>)
       ELSE Routed(Content(description(protocol.protocol), uri), <<>>)

(* a plausible slip: the TVL text is built from the raw integer *)
TvlText_Mut(tvl) == <<"TVL: ">> \o tvl \o <<" ether">>

TvlText(tvl) == <<"TVL: ">> \o format_units(tvl) \o <<" ether">>

(* Pattern: evm://{network}/lsts/{lst}/tvl *)
ReadTvl(uri, parts, net, e) ==
    LET lst_name == parts[5]
        protocol == try_from(lst_name)
    IN IF ~protocol.ok
       THEN Routed(InvalidParams(<<"Failed to parse protocol '">> \o lst_name
                                 \o <<"': ", protocol.err>>), <<>>)
       ELSE LET r == Lst_protocol_tvl(protocol.protocol, net, e)
            IN IF ~r.result.ok
               THEN Routed(InternalError(<<"Failed to get TVL: ">> \o DisplayErr(r.result.err)),
                           <<r.call>>)
               ELSE Routed(Content(TvlText(r.result.value), uri), <<r.call>>)

BalanceText(balance, lst_name) ==
    <<"Balance: ">> \o format_units(balance) \o <<" ">> \o lst_name

(* a plausible slip: the protocol tag is resolved before the address is parsed *)
ReadBalance_Mut(uri, parts, net, e) ==
    LET address_str == parts[5]
        lst_name    == parts[7]
        addr        == ParseAddress(address_str)
        protocol    == try_from(lst_name)
    IN IF ~protocol.ok
       THEN Routed(InvalidParams(<<"Failed to parse protocol: ", protocol.err>>), <<>>)
       ELSE IF ~addr.ok
       THEN Routed(McpError("invalid_params", <<"invalid_address">>,
                            [uri |-> uri, error |-> <<"Invalid address: ", "invalid hex">>]),
                   <<>>)
       ELSE LET r == Lst_read_balance(protocol.protocol, addr.addr, net, e)
            IN IF ~r.result.ok
               THEN Routed(InternalError(<<"Failed to get balance: ">>
                                         \o DisplayErr(r.result.err)), <<r.call>>)
               ELSE Routed(Content(BalanceText(r.result.value, lst_name), uri), <<r.call>>)

(* Pattern: evm://{network}/address/{address}/lsts/{lst}/balance *)
ReadBalance(uri, parts, net, e) ==
    LET address_str == parts[5]
        lst_name    == parts[7]
        addr        == ParseAddress(address_str)
        protocol    == try_from(lst_name)
    IN IF ~addr.ok
       THEN Routed(McpError("invalid_params", <<"invalid_address">>,
                            [uri |-> uri, error |-> <<"Invalid address: ", "invalid hex">>]),
                   <<>>)
       ELSE IF ~protocol.ok
       THEN Routed(InvalidParams(<<"Failed to parse protocol: ", protocol.err>>), <<>>)
       ELSE LET r == Lst_read_balance(protocol.protocol, addr.addr, net, e)
            IN IF ~r.result.ok
               THEN Routed(InternalError(<<"Failed to get balance: ">>
                                         \o DisplayErr(r.result.err)), <<r.call>>)
               ELSE Routed(Content(BalanceText(r.result.value, lst_name), uri), <<r.call>>)

(* Lst::read_resource.  parts[i] of the code is parts[i + 1] here; indexing a Vec *)
(* past its end panics.                                                           *)
read_resource(uri, net, e) ==
    IF uri = S_evm_networks
    THEN Routed(Content(<<"Supported networks: monadTestnet">>, uri), <<>>)
    ELSE LET parts == split(uri)
         IN IF Len(parts) >= 2 /\ parts[1] = S_evm
            THEN IF Len(parts) < 3
                 THEN Routed(Panic, <<>>)
                 ELSE LET network == parts[3]
                      IN IF network # S_monadTestnet
                         THEN Routed(UnsupportedNetwork(uri), <<>>)
                         ELSE IF Len(parts) = 4 /\ parts[4] = S_lsts
                         THEN ReadListing(uri)
                         ELSE IF Len(parts) = 5 /\ parts[4] = S_lsts
                         THEN ReadDetail(uri, parts)
                         ELSE IF Len(parts) = 6 /\ parts[4] = S_lsts /\ parts[6] = S_tvl
                         THEN ReadTvl(uri, parts, net, e)
                         ELSE IF /\ Len(parts) = 8
                                 /\ parts[4] = S_address
                                 /\ parts[6] = S_lsts
                                 /\ parts[8] = S_balance
                         THEN ReadBalance(uri, parts, net, e)
                         ELSE Routed(NotFound(uri), <<>>)
            ELSE Routed(NotFound(uri), <<>>)

-----------------------------------------------------------------------------
(* Lst::list_resources and Lst::list_resource_templates *)

(* ListResourcesResult / ListResourceTemplatesResult: the URIs (URI templates) listed *)
Listing(items) ==
    [kind |-> "listing", code |-> "", text |-> items, uri |-> <<>>, data |-> NoData]

S_tpl_network == <<"{","n","e","t","w","o","r","k","}">>
S_tpl_lst     == <<"{","l","s","t","}">>
S_tpl_address == <<"{","a","d","d","r","e","s","s","}">>

(* Lst::list_resources *)
list_resources == Routed(Listing(<<S_evm_networks>>), <<>>)

(* Lst::list_resource_templates *)
list_resource_templates ==
    Routed(Listing(<< JoinWith(<<S_evm, <<>>, S_tpl_network, S_lsts>>, "/"),
                      JoinWith(<<S_evm, <<>>, S_tpl_network, S_lsts, S_tpl_lst>>, "/"),
                      JoinWith(<<S_evm, <<>>, S_tpl_network, S_address, S_tpl_address,
                                 S_lsts, S_tpl_lst, S_balance>>, "/") >>),
           <<>>)

-----------------------------------------------------------------------------
(* Transactions: LstProtocol::stake / LstProtocol::unstake *)

NoReceipt == <<>>

(* a plausible slip: .with_chain_id(..) is lost and the wallet's default chain id, *)
(* 1, signs the transaction                                                       *)
Tx_Mut(wallet, to, fn, args, value) ==
    [from |-> WalletAddress(wallet.key), chain_id |-> 1,
     to |-> to, fn |-> fn, args |-> args, value |-> value,
     hash |-> <<>>, status |-> "built", receipt |-> NoReceipt]

(* a contract call bound to the signer, before send() *)
Tx(wallet, to, fn, args, value) ==
    [from |-> WalletAddress(wallet.key), chain_id |-> wallet.chain_id,
     to |-> to, fn |-> fn, args |-> args, value |-> value,
     hash |-> <<>>, status |-> "built", receipt |-> NoReceipt]

(* a plausible slip: the shMON deposit is sent without .value(amount) *)
LstProtocol_stake_tx_Mut(p, signer, signer_address, amount) ==
    CASE p = "AprMON" -> Tx(signer, address(p), "deposit", <<amount, signer_address>>, amount)
      [] p = "GMON"   -> Tx(signer, address(p), "depositMon", <<>>, amount)
      [] p = "SHMON"  -> Tx(signer, address(p), "deposit", <<amount, signer_address>>, <<"0">>)

(* LstProtocol::stake: the call each protocol makes *)
LstProtocol_stake_tx(p, signer, signer_address, amount) ==
    CASE p = "AprMON" -> Tx(signer, address(p), "deposit", <<amount, signer_address>>, amount)
      [] p = "GMON"   -> Tx(signer, address(p), "depositMon", <<>>, amount)
      [] p = "SHMON"  -> Tx(signer, address(p), "deposit", <<amount, signer_address>>, amount)

(* a plausible slip: the gMON withdrawal is sent to the token instead of the stake manager *)
LstProtocol_unstake_tx_Mut(p, signer, signer_address, amount) ==
    CASE p = "AprMON" -> Tx(signer, address(p), "requestRedeem",
                            <<amount, signer_address, signer_address>>, <<"0">>)
      [] p = "GMON"   -> Tx(signer, token_address(p), "withdrawMon", <<amount>>, <<"0">>)
      [] p = "SHMON"  -> Tx(signer, address(p), "redeem",
                            <<amount, signer_address, signer_address>>, <<"0">>)

(* LstProtocol::unstake: the call each protocol makes *)
LstProtocol_unstake_tx(p, signer, signer_address, amount) ==
    CASE p = "AprMON" -> Tx(signer, address(p), "requestRedeem",
                            <<amount, signer_address, signer_address>>, <<"0">>)
      [] p = "GMON"   -> Tx(signer, address(p), "withdrawMon", <<amount>>, <<"0">>)
      [] p = "SHMON"  -> Tx(signer, address(p), "redeem",
                            <<amount, signer_address, signer_address>>, <<"0">>)

(* the .context(..) attached to send() and to confirmations(1) *)
StakeSendContext(p)    == "Failed to deposit"
StakeConfirmContext(p) == "Failed to confirm deposit"

UnstakeSendContext(p) ==
    IF p = "GMON" THEN "Failed to deposit" ELSE "Failed to request redeem"
UnstakeConfirmContext(p) ==
    IF p = "GMON" THEN "Failed to confirm deposit" ELSE "Failed to confirm request redeem tx"

(* send(): the transaction is handed to the endpoint; on "ok" it is pending with *)
(* hash h, otherwise the endpoint or the gas estimation refused it               *)
Send(tx, net, h) ==
    IF net = "ok" THEN [tx EXCEPT !.hash = h, !.status = "pending"]
                  ELSE [tx EXCEPT !.status = "send_failed"]

(* what confirmations(1).await yields for a transaction that is no longer pending *)
PollFailed(tx) == tx.status = "poll_failed"

-----------------------------------------------------------------------------
(* Lst::stake and Lst::unstake *)

(* the state of an invocation when the handler next suspends or returns *)
Finished(r, sent, steps)  == [pc |-> "done", res |-> r, txs |-> sent, trace |-> steps]
Suspended(sent, steps)    == [pc |-> "awaiting", res |-> NoResult, txs |-> sent, trace |-> steps]

StakeSuccessText(amount, protocol, receipt) ==
    <<"Staked ">> \o amount \o <<" ">> \o Display(protocol)
        \o <<" tokens successfully. Transaction hash: ">>
        \o encode_prefixed(receipt.transaction_hash)

UnstakeSuccessText(amount, protocol, receipt) ==
    <<"Unstaked ">> \o amount \o <<" ">> \o Display(protocol)
        \o <<" tokens successfully. Transaction hash: ">>
        \o encode_prefixed(receipt.transaction_hash)

(* a plausible slip: success is reported as soon as send() has returned *)
StakeAfterSend_Mut(protocol, amount, tx, steps) ==
    Finished(ToolSuccess(StakeSuccessText(amount, protocol, [transaction_hash |-> tx.hash])),
             <<tx>>, steps \o <<"respond">>)

(* .confirmations(1).await: the handler suspends on the pending transaction *)
StakeAfterSend(protocol, amount, tx, steps) == Suspended(<<tx>>, steps)

UnstakeAfterSend(protocol, amount, tx, steps) == Suspended(<<tx>>, steps)

(* a plausible slip: the transaction is sent before the amount has been validated *)
Lst_stake_begin_Mut(protocol, private_key, amount, net, h) ==
    LET w == ParseWallet(private_key)
    IN IF ~w.ok
       THEN Finished(InvalidParams(<<"Failed to parse private key: ", w.err>>),
                     <<>>, <<"parse_key">>)
       ELSE LET signer         == [key |-> w.key, chain_id |-> MONAD_TESTNET_CHAIN_ID]
                signer_address == WalletAddress(signer.key)
                parsed         == parse_units(amount)
                early          == Send(LstProtocol_stake_tx(protocol, signer, signer_address,
                                                            <<"0">>), net, h)
            IN IF parsed.kind = "err"
               THEN Finished(InvalidParams(<<"Failed to parse amount '">> \o amount
                                           \o <<"': ", parsed.err>>),
                             <<early>>, <<"parse_key", "send", "parse_amount">>)
               ELSE IF parsed.kind = "panic"
               THEN Finished(Panic, <<>>, <<"parse_key", "parse_amount">>)
               ELSE LET tx == Send(LstProtocol_stake_tx(protocol, signer, signer_address,
                                                        parsed.value), net, h)
                        steps == <<"parse_key", "parse_amount", "send">>
                    IN IF tx.status = "pending"
                       THEN StakeAfterSend(protocol, amount, tx, steps)
                       ELSE Finished(InternalError(<<"Staking failed: ">> \o DisplayErr(
                                        Context(StakeSendContext(protocol), NetError(net)))),
                                     <<tx>>, steps)

(* Lst::stake up to its first suspension in confirmations(1) *)
Lst_stake_begin(protocol, private_key, amount, net, h) ==
    LET w == ParseWallet(private_key)
    IN IF ~w.ok
       THEN Finished(InvalidParams(<<"Failed to parse private key: ", w.err>>),
                     <<>>, <<"parse_key">>)
       ELSE LET signer         == [key |-> w.key, chain_id |-> MONAD_TESTNET_CHAIN_ID]
                signer_address == WalletAddress(signer.key)
                parsed         == parse_units(amount)
            IN IF parsed.kind = "err"
               THEN Finished(InvalidParams(<<"Failed to parse amount '">> \o amount
                                           \o <<"': ", parsed.err>>),
                             <<>>, <<"parse_key", "parse_amount">>)
               ELSE IF parsed.kind = "panic"
               THEN Finished(Panic, <<>>, <<"parse_key", "parse_amount">>)
               ELSE LET tx == Send(LstProtocol_stake_tx(protocol, signer, signer_address,
                                                        parsed.value), net, h)
                        steps == <<"parse_key", "parse_amount", "send">>
                    IN IF tx.status = "pending"
                       THEN StakeAfterSend(protocol, amount, tx, steps)
                       ELSE Finished(InternalError(<<"Staking failed: ">> \o DisplayErr(
                                        Context(StakeSendContext(protocol), NetError(net)))),
                                     <<tx>>, steps)

(* a plausible slip: the amount is parsed before the private key *)
Lst_unstake_begin_Mut(protocol, private_key, amount, net, h) ==
    LET parsed == parse_units(amount)
        w      == ParseWallet(private_key)
    IN IF parsed.kind = "err"
       THEN Finished(InvalidParams(<<"Failed to parse amount '">> \o amount
                                   \o <<"': ", parsed.err>>),
                     <<>>, <<"parse_amount">>)
       ELSE IF parsed.kind = "panic"
       THEN Finished(Panic, <<>>, <<"parse_amount">>)
       ELSE IF ~w.ok
       THEN Finished(InvalidParams(<<"Failed to parse private key: ", w.err>>),
                     <<>>, <<"parse_amount", "parse_key">>)
       ELSE LET signer         == [key |-> w.key, chain_id |-> MONAD_TESTNET_CHAIN_ID]
                signer_address == WalletAddress(signer.key)
                tx    == Send(LstProtocol_unstake_tx(protocol, signer, signer_address,
                                                     parsed.value), net, h)
                steps == <<"parse_key", "parse_amount", "send">>
            IN IF tx.status = "pending"
               THEN UnstakeAfterSend(protocol, amount, tx, steps)
               ELSE Finished(InternalError(<<"Staking failed: ">> \o DisplayErr(
                                Context(UnstakeSendContext(protocol), NetError(net)))),
                             <<tx>>, steps)

(* Lst::unstake up to its first suspension in confirmations(1) *)
Lst_unstake_begin(protocol, private_key, amount, net, h) ==
    LET w == ParseWallet(private_key)
    IN IF ~w.ok
       THEN Finished(InvalidParams(<<"Failed to parse private key: ", w.err>>),
                     <<>>, <<"parse_key">>)
       ELSE LET signer         == [key |-> w.key, chain_id |-> MONAD_TESTNET_CHAIN_ID]
                signer_address == WalletAddress(signer.key)
                parsed         == parse_units(amount)
            IN IF parsed.kind = "err"
               THEN Finished(InvalidParams(<<"Failed to parse amount '">> \o amount
                                           \o <<"': ", parsed.err>>),
                             <<>>, <<"parse_key", "parse_amount">>)
               ELSE IF parsed.kind = "panic"
               THEN Finished(Panic, <<>>, <<"parse_key", "parse_amount">>)
               ELSE LET tx == Send(LstProtocol_unstake_tx(protocol, signer, signer_address,
                                                          parsed.value), net, h)
                        steps == <<"parse_key", "parse_amount", "send">>
                    IN IF tx.status = "pending"
                       THEN UnstakeAfterSend(protocol, amount, tx, steps)
                       ELSE Finished(InternalError(<<"Staking failed: ">> \o DisplayErr(
                                        Context(UnstakeSendContext(protocol), NetError(net)))),
                                     <<tx>>, steps)

(* a plausible slip: a transaction that yielded no receipt is submitted again *)
Lst_stake_finish_Mut(protocol, amount, tx) ==
    LET steps == <<"parse_key", "parse_amount", "send", "confirmations", "respond">>
    IN IF PollFailed(tx)
       THEN Finished(InternalError(<<"Staking failed: ">> \o DisplayErr(
                        Context(StakeConfirmContext(protocol), NetError("rpc_error")))), <<tx>>, steps)
       ELSE IF tx.receipt = NoReceipt
       THEN Finished(InternalError(<<"Staking failed: no receipt returned">>),
                     <<tx, [tx EXCEPT !.status = "pending"]>>, steps)
       ELSE Finished(ToolSuccess(StakeSuccessText(amount, protocol, tx.receipt[1])),
                     <<tx>>, steps)

(* a plausible slip: the success text also reports who signed *)
Lst_stake_finish_Echo(protocol, amount, tx) ==
    LET steps == <<"parse_key", "parse_amount", "send", "confirmations", "respond">>
    IN IF PollFailed(tx)
       THEN Finished(InternalError(<<"Staking failed: ">> \o DisplayErr(
                        Context(StakeConfirmContext(protocol), NetError("rpc_error")))), <<tx>>, steps)
       ELSE IF tx.receipt = NoReceipt
       THEN Finished(InternalError(<<"Staking failed: no receipt returned">>), <<tx>>, steps)
       ELSE Finished(ToolSuccess(StakeSuccessText(amount, protocol, tx.receipt[1])
                                 \o <<" from 0x">> \o tx.from),
                     <<tx>>, steps)

(* Lst::stake from the point where confirmations(1) has resolved *)
Lst_stake_finish(protocol, amount, tx) ==
    LET steps == <<"parse_key", "parse_amount", "send", "confirmations", "respond">>
    IN IF PollFailed(tx)
       THEN Finished(InternalError(<<"Staking failed: ">> \o DisplayErr(
                        Context(StakeConfirmContext(protocol), NetError("rpc_error")))), <<tx>>, steps)
       ELSE IF tx.receipt = NoReceipt
       THEN Finished(InternalError(<<"Staking failed: no receipt returned">>), <<tx>>, steps)
       ELSE Finished(ToolSuccess(StakeSuccessText(amount, protocol, tx.receipt[1])),
                     <<tx>>, steps)

(* a plausible slip: after a failed poll the handler goes back to waiting *)
Lst_unstake_finish_Mut(protocol, amount, tx) ==
    LET steps == <<"parse_key", "parse_amount", "send", "confirmations", "respond">>
    IN IF PollFailed(tx)
       THEN Suspended(<<tx>>, steps)
       ELSE IF tx.receipt = NoReceipt
       THEN Finished(InternalError(<<"Staking failed: no receipt returned">>), <<tx>>, steps)
       ELSE Finished(ToolSuccess(UnstakeSuccessText(amount, protocol, tx.receipt[1])),
                     <<tx>>, steps)

(* Lst::unstake from the point where confirmations(1) has resolved *)
Lst_unstake_finish(protocol, amount, tx) ==
    LET steps == <<"parse_key", "parse_amount", "send", "confirmations", "respond">>
    IN IF PollFailed(tx)
       THEN Finished(InternalError(<<"Staking failed: ">> \o DisplayErr(
                        Context(UnstakeConfirmContext(protocol), NetError("rpc_error")))), <<tx>>, steps)
       ELSE IF tx.receipt = NoReceipt
       THEN Finished(InternalError(<<"Staking failed: no receipt returned">>), <<tx>>, steps)
       ELSE Finished(ToolSuccess(UnstakeSuccessText(amount, protocol, tx.receipt[1])),
                     <<tx>>, steps)

-----------------------------------------------------------------------------
(* Inputs *)

S_gmon_lower == <<"g","m","o","n">>
S_mainnet    == <<"m","a","i","n","n","e","t">>
S_networks   == <<"n","e","t","w","o","r","k","s">>
S_http       == <<"h","t","t","p",":">>

OwnerA == <<"0","x">> \o Rep("1", 40)
OwnerB == Rep("A", 40)
BadOwner == <<"0","x","1","2">>

Tags == {S_aprMON, S_gMON, S_shMON}

SegPool ==
    {<<>>, <<"x">>, S_evm, S_http, S_monadTestnet, S_mainnet, S_networks, S_lsts, S_tvl,
     S_address, S_balance, S_aprMON, S_gMON, S_shMON, S_gmon_lower, OwnerA, BadOwner}

SubstPool ==
    {<<>>, <<"x">>, S_evm, S_monadTestnet, S_mainnet, S_lsts, S_address, S_gmon_lower, BadOwner}

(* the documented URIs, as lists of '/'-separated segments *)
DocumentedSegs ==
    {<<S_evm, <<>>, S_networks>>, <<S_evm, <<>>, S_monadTestnet, S_lsts>>}
    \cup {<<S_evm, <<>>, S_monadTestnet, S_lsts, t>> : t \in Tags}
    \cup {<<S_evm, <<>>, S_monadTestnet, S_lsts, t, S_tvl>> : t \in Tags}
    \cup {<<S_evm, <<>>, S_monadTestnet, S_address, OwnerA, S_lsts, t, S_balance>> : t \in Tags}
    \cup {<<S_evm, <<>>, S_monadTestnet, S_address, OwnerB, S_lsts, S_gMON, S_balance>>}

(* every list one segment substitution, one truncation or one extension away *)
Neighbours(l) ==
    {l}
    \cup {[l EXCEPT ![i] = g] : i \in 1..Len(l), g \in SubstPool}
    \cup {SubSeq(l, 1, k) : k \in 0..Len(l)}
    \cup {l \o <<g>> : g \in {<<>>, <<"x">>, S_tvl}}

ShortSegs == {<<>>} \cup {<<a>> : a \in SegPool} \cup {<<a, b>> : a, b \in SegPool}

(* balance URIs in which the address and the tag are malformed together, and one *)
(* whose address has the right length and a digit that is not hexadecimal         *)
DoublyMalformedSegs ==
    {<<S_evm, <<>>, S_monadTestnet, S_address, BadOwner, S_lsts, S_gmon_lower, S_balance>>,
     <<S_evm, <<>>, S_monadTestnet, S_address, Rep("z", 40), S_lsts, <<"x">>, S_balance>>,
     <<S_evm, <<>>, S_monadTestnet, S_address, Rep("z", 40), S_lsts, S_shMON, S_balance>>}

UriInputs ==
    {JoinWith(l, "/") : l \in (UNION {Neighbours(d) : d \in DocumentedSegs})
                               \cup ShortSegs \cup DoublyMalformedSegs}

Key1    == Rep("1", 64)
Key2    == <<"0","x">> \o Rep("a", 64)

PrivateKeyInputs ==
    {Key1, Key2, <<>>, Rep("1", 63), Rep("z", 64), Rep("0", 64)}

AmountInputs ==
    { <<"0",".","0","0","5">>,
      <<"1">>,
      <<"1",".","5">>,
      <<"1","_","0">>,
      <<>>,
      <<"a","b","c">>,
      <<"1",".","2",".","3">>,
      <<"1","e","1","8">>,
      <<"-","1">>,
      <<"0",".">> \o Rep("1", 19),
      U256_MAX,
      TWO_256 }

TagAlphabet == {"a","p","r","M","O","N","g","s","h","A","G","S","m","o","n"," "}

TagInputs ==
    {<<>>}
    \cup Tags
    \cup UNION {{[t EXCEPT ![i] = c] : i \in 1..Len(t), c \in TagAlphabet} : t \in Tags}
    \cup UNION {{RemoveAt(t, i) : i \in 1..Len(t)} : t \in Tags}
    \cup UNION {{t \o <<c>> : c \in TagAlphabet} \cup {<<c>> \o t : c \in TagAlphabet} : t \in Tags}

-----------------------------------------------------------------------------
(* State machine *)

NoRequest == [op |-> "none", protocol |-> "", private_key |-> <<>>, amount |-> <<>>,
              uri |-> <<>>]

NoLookup == [value |-> <<>>, done |-> FALSE, ok |-> FALSE, protocol |-> "",
             address |-> <<>>, token_address |-> <<>>,
             echoed |-> FALSE, shown |-> <<>>, again |-> "", tool |-> ""]

NoParse == [kind |-> "none", value |-> <<>>, err |-> ""]

NoConv == [stage |-> "none", n |-> <<>>, text |-> <<>>, out |-> NoParse]

Init ==
    /\ pc = [s \in Sessions |-> "idle"]
    /\ req = [s \in Sessions |-> NoRequest]
    /\ res = [s \in Sessions |-> NoResult]
    /\ txs = [s \in Sessions |-> <<>>]
    /\ rpc = [s \in Sessions |-> <<>>]
    /\ trace = [s \in Sessions |-> <<>>]
    /\ epoch = 0
    /\ ncalls = 0
    /\ lookup = NoLookup
    /\ conv = NoConv

(* a read_resource request is served; the handler runs to its response *)
ReadResourceOn(s, Uris, Nets) ==
    /\ pc[s] = "idle"
    /\ ncalls < MaxCalls
    /\ \E uri \in Uris, net \in Nets :
          LET r == read_resource(uri, net, epoch)
          IN /\ pc' = [pc EXCEPT ![s] = "done"]
             /\ req' = [req EXCEPT ![s] = [NoRequest EXCEPT !.op = "read_resource", !.uri = uri]]
             /\ res' = [res EXCEPT ![s] = r.res]
             /\ rpc' = [rpc EXCEPT ![s] = r.rpc]
             /\ trace' = [trace EXCEPT ![s] = <<"route">>]
    /\ ncalls' = ncalls + 1
    /\ UNCHANGED <<txs, epoch, lookup, conv>>

ReadResource(s) == ReadResourceOn(s, UriInputs, NetOutcomes)

(* a list_resources request is served *)
ListResources(s) ==
    /\ pc[s] = "idle"
    /\ ncalls < MaxCalls
    /\ pc' = [pc EXCEPT ![s] = "done"]
    /\ req' = [req EXCEPT ![s] = [NoRequest EXCEPT !.op = "list_resources"]]
    /\ res' = [res EXCEPT ![s] = list_resources.res]
    /\ rpc' = [rpc EXCEPT ![s] = list_resources.rpc]
    /\ trace' = [trace EXCEPT ![s] = <<"list">>]
    /\ ncalls' = ncalls + 1
    /\ UNCHANGED <<txs, epoch, lookup, conv>>

(* a list_resource_templates request is served *)
ListResourceTemplates(s) ==
    /\ pc[s] = "idle"
    /\ ncalls < MaxCalls
    /\ pc' = [pc EXCEPT ![s] = "done"]
    /\ req' = [req EXCEPT ![s] = [NoRequest EXCEPT !.op = "list_resource_templates"]]
    /\ res' = [res EXCEPT ![s] = list_resource_templates.res]
    /\ rpc' = [rpc EXCEPT ![s] = list_resource_templates.rpc]
    /\ trace' = [trace EXCEPT ![s] = <<"list">>]
    /\ ncalls' = ncalls + 1
    /\ UNCHANGED <<txs, epoch, lookup, conv>>

(* a stake tool call is served up to its response or its suspension *)
StakeOn(s, Protocols, Keys, Amounts, Nets, Hashes) ==
    /\ pc[s] = "idle"
    /\ ncalls < MaxCalls
    /\ \E protocol \in Protocols, private_key \in Keys,
          amount \in Amounts, net \in Nets, h \in Hashes :
          LET b == Lst_stake_begin(protocol, private_key, amount, net, h)
          IN /\ pc' = [pc EXCEPT ![s] = b.pc]
             /\ req' = [req EXCEPT ![s] = [NoRequest EXCEPT !.op = "stake",
                            !.protocol = protocol, !.private_key = private_key,
                            !.amount = amount]]
             /\ res' = [res EXCEPT ![s] = b.res]
             /\ txs' = [txs EXCEPT ![s] = b.txs]
             /\ trace' = [trace EXCEPT ![s] = b.trace]
    /\ ncalls' = ncalls + 1
    /\ UNCHANGED <<rpc, epoch, lookup, conv>>

Stake(s) == StakeOn(s, LstProtocol, PrivateKeyInputs, AmountInputs, NetOutcomes, TxHashes)

(* an unstake tool call is served up to its response or its suspension *)
UnstakeOn(s, Protocols, Keys, Amounts, Nets, Hashes) ==
    /\ pc[s] = "idle"
    /\ ncalls < MaxCalls
    /\ \E protocol \in Protocols, private_key \in Keys,
          amount \in Amounts, net \in Nets, h \in Hashes :
          LET b == Lst_unstake_begin(protocol, private_key, amount, net, h)
          IN /\ pc' = [pc EXCEPT ![s] = b.pc]
             /\ req' = [req EXCEPT ![s] = [NoRequest EXCEPT !.op = "unstake",
                            !.protocol = protocol, !.private_key = private_key,
                            !.amount = amount]]
             /\ res' = [res EXCEPT ![s] = b.res]
             /\ txs' = [txs EXCEPT ![s] = b.txs]
             /\ trace' = [trace EXCEPT ![s] = b.trace]
    /\ ncalls' = ncalls + 1
    /\ UNCHANGED <<rpc, epoch, lookup, conv>>

Unstake(s) == UnstakeOn(s, LstProtocol, PrivateKeyInputs, AmountInputs, NetOutcomes, TxHashes)

LastTx(s) == txs[s][Len(txs[s])]

(* a plausible slip: the receipt is delivered through one slot that every waiting *)
(* invocation reads, as a field of the shared handler would be                    *)
SetLastTx_Mut(s, tx) ==
    [t \in Sessions |-> IF txs[t] # <<>> THEN [txs[t] EXCEPT ![Len(txs[t])] = tx] ELSE txs[t]]

(* the pending transaction an invocation awaits is its own: a change of its status *)
(* reaches that invocation alone                                                   *)
SetLastTx(s, tx) == [txs EXCEPT ![s] = [@ EXCEPT ![Len(@)] = tx]]

HasPending(s) == pc[s] = "awaiting" /\ txs[s] # <<>> /\ LastTx(s).status = "pending"

(* the chain includes the pending transaction in a block: a receipt exists *)
Mine(s) ==
    /\ HasPending(s)
    /\ epoch < MaxEpoch
    /\ txs' = SetLastTx(s, [LastTx(s) EXCEPT !.status = "confirmed",
                               !.receipt = <<[transaction_hash |-> LastTx(s).hash]>>])
    /\ epoch' = epoch + 1
    /\ UNCHANGED <<pc, req, res, rpc, trace, ncalls, lookup, conv>>

(* the pending transaction leaves the mempool: confirmations(1) yields no receipt *)
Drop(s) ==
    /\ HasPending(s)
    /\ txs' = SetLastTx(s, [LastTx(s) EXCEPT !.status = "dropped"])
    /\ UNCHANGED <<pc, req, res, rpc, trace, epoch, ncalls, lookup, conv>>

(* polling for the receipt fails: confirmations(1) yields an error *)
PollFail(s) ==
    /\ HasPending(s)
    /\ txs' = SetLastTx(s, [LastTx(s) EXCEPT !.status = "poll_failed"])
    /\ UNCHANGED <<pc, req, res, rpc, trace, epoch, ncalls, lookup, conv>>

(* confirmations(1) has resolved: Lst::stake runs to its response *)
StakeResume(s) ==
    /\ pc[s] = "awaiting"
    /\ req[s].op = "stake"
    /\ LastTx(s).status # "pending"
    /\ LET f == Lst_stake_finish(req[s].protocol, req[s].amount, LastTx(s))
       IN /\ pc' = [pc EXCEPT ![s] = f.pc]
          /\ res' = [res EXCEPT ![s] = f.res]
          /\ txs' = [txs EXCEPT ![s] = f.txs]
          /\ trace' = [trace EXCEPT ![s] = f.trace]
    /\ UNCHANGED <<req, rpc, epoch, ncalls, lookup, conv>>

(* confirmations(1) has resolved: Lst::unstake runs to its response *)
UnstakeResume(s) ==
    /\ pc[s] = "awaiting"
    /\ req[s].op = "unstake"
    /\ LastTx(s).status # "pending"
    /\ LET f == Lst_unstake_finish(req[s].protocol, req[s].amount, LastTx(s))
       IN /\ pc' = [pc EXCEPT ![s] = f.pc]
          /\ res' = [res EXCEPT ![s] = f.res]
          /\ txs' = [txs EXCEPT ![s] = f.txs]
          /\ trace' = [trace EXCEPT ![s] = f.trace]
    /\ UNCHANGED <<req, rpc, epoch, ncalls, lookup, conv>>

(* the response has been delivered; the session can issue its next request *)
Return(s) ==
    /\ pc[s] = "done"
    /\ pc' = [pc EXCEPT ![s] = "idle"]
    /\ req' = [req EXCEPT ![s] = NoRequest]
    /\ res' = [res EXCEPT ![s] = NoResult]
    /\ txs' = [txs EXCEPT ![s] = <<>>]
    /\ rpc' = [rpc EXCEPT ![s] = <<>>]
    /\ trace' = [trace EXCEPT ![s] = <<>>]
    /\ UNCHANGED <<epoch, ncalls, lookup, conv>>

(* the chain state changes through transactions of other parties *)
ChainAdvance ==
    /\ epoch < MaxEpoch
    /\ epoch' = epoch + 1
    /\ UNCHANGED <<pc, req, res, txs, rpc, trace, ncalls, lookup, conv>>

(* one session at a time, over the full input sets *)
Client == "s1"

Next ==
    \/ ReadResource(Client)
    \/ ListResources(Client)
    \/ ListResourceTemplates(Client)
    \/ Stake(Client)
    \/ Unstake(Client)
    \/ Mine(Client)
    \/ Drop(Client)
    \/ PollFail(Client)
    \/ StakeResume(Client)
    \/ UnstakeResume(Client)
    \/ Return(Client)
    \/ ChainAdvance

Spec == Init /\ [][Next]_vars

-----------------------------------------------------------------------------
(* Concurrent sessions: the server runs one task per session on a clone of the *)
(* handler, so invocations of different sessions interleave at every await.    *)
(* The inputs are kept small; the full input sets are explored by Spec.        *)

ConcUris ==
    { S_evm_networks,
      JoinWith(<<S_evm, <<>>, S_monadTestnet, S_lsts, S_gMON, S_tvl>>, "/"),
      JoinWith(<<S_evm, <<>>, S_monadTestnet, S_address, OwnerA, S_lsts, S_aprMON, S_balance>>, "/") }

ConcProtocols == {"AprMON", "GMON"}

ConcKeys == {Key1, Key2}

ConcAmounts == {<<"1">>, <<"1",".","5">>}

(* transactions of different senders have different hashes *)
ConcHash(s) == IF s = "s1" THEN Rep("a", 64) ELSE Rep("b", 64)

NextConc ==
    \/ \E s \in Sessions :
          \/ ReadResourceOn(s, ConcUris, {"ok", "rpc_error"})
          \/ ListResources(s)
          \/ ListResourceTemplates(s)
          \/ StakeOn(s, ConcProtocols, ConcKeys, ConcAmounts, {"ok"}, {ConcHash(s)})
          \/ UnstakeOn(s, ConcProtocols, ConcKeys, ConcAmounts, {"ok"}, {ConcHash(s)})
          \/ Mine(s)
          \/ Drop(s)
          \/ PollFail(s)
          \/ StakeResume(s)
          \/ UnstakeResume(s)
          \/ Return(s)
    \/ ChainAdvance

SpecConc == Init /\ [][NextConc]_vars

(* a task whose awaited future has resolved is polled again by the runtime; *)
(* nothing obliges the chain to ever report on a pending transaction        *)
SpecLive ==
    /\ Init /\ [][NextConc]_vars
    /\ \A s \in Sessions : WF_vars(StakeResume(s)) /\ WF_vars(UnstakeResume(s))

-----------------------------------------------------------------------------
(* The protocol registry as a pure lookup: a tag string is resolved to its *)
(* variant and the variant to its two addresses                            *)

InitLookup ==
    /\ pc = [s \in Sessions |-> "idle"]
    /\ req = [s \in Sessions |-> NoRequest]
    /\ res = [s \in Sessions |-> NoResult]
    /\ txs = [s \in Sessions |-> <<>>]
    /\ rpc = [s \in Sessions |-> <<>>]
    /\ trace = [s \in Sessions |-> <<>>]
    /\ epoch = 0
    /\ ncalls = 0
    /\ lookup \in {[NoLookup EXCEPT !.value = v] : v \in TagInputs}
    /\ conv = NoConv

Resolve ==
    /\ ~lookup.done
    /\ LET r == try_from(lookup.value)
       IN lookup' = [lookup EXCEPT !.done = TRUE, !.ok = r.ok,
                     !.protocol = r.protocol,
                     !.address = IF r.ok THEN address(r.protocol) ELSE <<>>,
                     !.token_address = IF r.ok THEN token_address(r.protocol) ELSE <<>>]
    /\ UNCHANGED <<pc, req, res, txs, rpc, trace, epoch, ncalls, conv>>

(* the resolved variant is displayed, as the result texts display it, and the *)
(* displayed tag is given back to the router's lookup and to the tools'       *)
(* argument deserializer                                                      *)
Echo ==
    /\ lookup.done /\ lookup.ok /\ ~lookup.echoed
    /\ LET shown == Display(lookup.protocol)
       IN lookup' = [lookup EXCEPT !.echoed = TRUE, !.shown = shown,
                                   !.again = try_from(shown).protocol,
                                   !.tool = deserialize(shown).protocol]
    /\ UNCHANGED <<pc, req, res, txs, rpc, trace, epoch, ncalls, conv>>

NextLookup == Resolve \/ Echo

SpecLookup == InitLookup /\ [][NextLookup]_vars

-----------------------------------------------------------------------------
(* The amount conversions as pure functions: a 256-bit integer is formatted as *)
(* read_resource formats a balance or a TVL, and the text is parsed back as    *)
(* stake / unstake parse their amount argument                                 *)

Pow10(k) == <<"1">> \o Rep("0", k)

(* every power of ten of the range and its predecessor, the values around one *)
(* ether, the values the chain of the model holds and the top of the range    *)
U256Inputs ==
    {Pow10(k) : k \in 0..(Len(U256_MAX) - 1)}
    \cup {Rep("9", k) : k \in 1..(Len(U256_MAX) - 1)}
    \cup {Pow10(k) \o <<"1">> : k \in 0..(Len(U256_MAX) - 2)}
    \cup {ChainValues[i] : i \in 1..Len(ChainValues)}
    \cup {<<"0">>, TWO_255, NumSub(U256_MAX, <<"1">>), U256_MAX}

InitAmount ==
    /\ pc = [s \in Sessions |-> "idle"]
    /\ req = [s \in Sessions |-> NoRequest]
    /\ res = [s \in Sessions |-> NoResult]
    /\ txs = [s \in Sessions |-> <<>>]
    /\ rpc = [s \in Sessions |-> <<>>]
    /\ trace = [s \in Sessions |-> <<>>]
    /\ epoch = 0
    /\ ncalls = 0
    /\ lookup = NoLookup
    /\ conv \in {[NoConv EXCEPT !.stage = "int", !.n = n] : n \in U256Inputs}

(* format_units(balance, "ether") *)
Format ==
    /\ conv.stage = "int"
    /\ conv' = [conv EXCEPT !.stage = "text", !.text = format_units(conv.n)]
    /\ UNCHANGED <<pc, req, res, txs, rpc, trace, epoch, ncalls, lookup>>

(* parse_units(&amount, "ether") and the conversion into U256 *)
Parse ==
    /\ conv.stage = "text"
    /\ conv' = [conv EXCEPT !.stage = "parsed", !.out = parse_units(conv.text)]
    /\ UNCHANGED <<pc, req, res, txs, rpc, trace, epoch, ncalls, lookup>>

NextAmount == Format \/ Parse

SpecAmount == InitAmount /\ [][NextAmount]_vars

-----------------------------------------------------------------------------
(* Vocabulary of the properties *)

Uri(segs) == JoinWith(segs, "/")

ToolOps == {"stake", "unstake"}

ReadOps == {"read_resource", "list_resources", "list_resource_templates"}

ReadDone(s) == pc[s] = "done" /\ req[s].op = "read_resource"

ToolDone(s) == pc[s] = "done" /\ req[s].op \in ToolOps

(* u is an instance of one of the five documented templates, a template variable *)
(* standing for any '/'-free segment                                             *)
InDocumentedShape(u) ==
    LET parts == split(u)
        n     == Len(parts)
    IN \/ u = S_evm_networks
       \/ /\ n \in {4, 5, 6, 8}
          /\ parts[1] = S_evm
          /\ parts[2] = <<>>
          /\ \/ n \in {4, 5} /\ parts[4] = S_lsts
             \/ n = 6 /\ parts[4] = S_lsts /\ parts[6] = S_tvl
             \/ n = 8 /\ parts[4] = S_address /\ parts[6] = S_lsts /\ parts[8] = S_balance

IsNotFound(r) == r.kind = "error" /\ r.code = "resource_not_found"

IsInvalidParams(r) == r.kind = "error" /\ r.code = "invalid_params"

IsInternalError(r) == r.kind = "error" /\ r.code = "internal_error"

(* the URI has passed the evm: and network checks of the router *)
OnMonadTestnet(parts) ==
    Len(parts) >= 3 /\ parts[1] = S_evm /\ parts[3] = S_monadTestnet

IsDetailShape(parts) == OnMonadTestnet(parts) /\ Len(parts) = 5 /\ parts[4] = S_lsts

IsTvlShape(parts) ==
    OnMonadTestnet(parts) /\ Len(parts) = 6 /\ parts[4] = S_lsts /\ parts[6] = S_tvl

IsBalanceShape(parts) ==
    /\ OnMonadTestnet(parts) /\ Len(parts) = 8
    /\ parts[4] = S_address /\ parts[6] = S_lsts /\ parts[8] = S_balance

(* the amount argument of the transaction: the first call argument, or the *)
(* attached value of the argument-less depositMon()                       *)
TxAmount(tx) == IF tx.args = <<>> THEN tx.value ELSE tx.args[1]

(* the reading of an amount text as a decimal numeral: digits, at most one dot, *)
(* digit-group underscores ignored                                             *)
DecimalParts(t) ==
    LET u  == RemoveUnderscores(t)
        di == FindDot(u)
    IN [int  |-> IF di > 0 THEN SubSeq(u, 1, di - 1) ELSE u,
        frac |-> IF di > 0 THEN SubSeq(u, di + 1, Len(u)) ELSE <<>>]

IsDecimalNumeral(t) ==
    LET d == DecimalParts(t)
    IN /\ Len(d.int) + Len(d.frac) >= 1
       /\ \A i \in 1..Len(d.int) : d.int[i] \in DecDigits
       /\ \A i \in 1..Len(d.frac) : d.frac[i] \in DecDigits

(* value * 10^18 of a decimal numeral with at most 18 fractional digits *)
ExactWei(t) ==
    LET d == DecimalParts(t)
    IN StripZeros(d.int \o d.frac \o Rep("0", EtherDecimals - Len(d.frac)))

(* the numeral has an exact unsigned 256-bit representation at 18 decimals *)
Representable(t) ==
    /\ IsDecimalNumeral(t)
    /\ Len(DecimalParts(t).frac) <= EtherDecimals
    /\ NumLeq(ExactWei(t), U256_MAX)

(* the transaction an invocation builds from its own arguments, before send() *)
OwnTx(r) ==
    LET w      == ParseWallet(r.private_key)
        signer == [key |-> w.key, chain_id |-> MONAD_TESTNET_CHAIN_ID]
        amount == parse_units(r.amount).value
    IN IF r.op = "stake"
       THEN LstProtocol_stake_tx(r.protocol, signer, WalletAddress(w.key), amount)
       ELSE LstProtocol_unstake_tx(r.protocol, signer, WalletAddress(w.key), amount)

(* the invocation's state is what it reaches when it runs alone on its own *)
(* arguments, for some behaviour of the chain and the endpoint             *)
AsIfAlone(s) ==
    CASE req[s].op = "none" ->
            /\ pc[s] = "idle" /\ res[s] = NoResult
            /\ txs[s] = <<>> /\ rpc[s] = <<>>
      [] req[s].op = "read_resource" ->
            /\ txs[s] = <<>>
            /\ \E net \in NetOutcomes, e \in 0..epoch :
                   read_resource(req[s].uri, net, e) = Routed(res[s], rpc[s])
      [] req[s].op = "list_resources" ->
            txs[s] = <<>> /\ list_resources = Routed(res[s], rpc[s])
      [] req[s].op = "list_resource_templates" ->
            txs[s] = <<>> /\ list_resource_templates = Routed(res[s], rpc[s])
      [] req[s].op \in ToolOps ->
            /\ rpc[s] = <<>>
            /\ \E net \in NetOutcomes, h \in TxHashes :
                   LET b == IF req[s].op = "stake"
                            THEN Lst_stake_begin(req[s].protocol, req[s].private_key,
                                                 req[s].amount, net, h)
                            ELSE Lst_unstake_begin(req[s].protocol, req[s].private_key,
                                                   req[s].amount, net, h)
                   IN IF b.pc = "done"
                      THEN pc[s] = "done" /\ res[s] = b.res /\ txs[s] = b.txs
                      ELSE /\ Len(txs[s]) = 1
                           /\ [txs[s][1] EXCEPT !.hash = <<>>, !.status = "built",
                                                !.receipt = NoReceipt] = OwnTx(req[s])
                           /\ txs[s][1].hash = h
                           /\ txs[s][1].receipt \in
                                  {NoReceipt, <<[transaction_hash |-> h]>>}
                           /\ IF pc[s] = "awaiting" THEN res[s] = NoResult
                              ELSE res[s] = (IF req[s].op = "stake"
                                             THEN Lst_stake_finish(req[s].protocol,
                                                      req[s].amount, txs[s][1])
                                             ELSE Lst_unstake_finish(req[s].protocol,
                                                      req[s].amount, txs[s][1])).res

(* session s is untouched by the step *)
Untouched(s) ==
    /\ pc'[s] = pc[s] /\ req'[s] = req[s] /\ res'[s] = res[s]
    /\ txs'[s] = txs[s] /\ rpc'[s] = rpc[s] /\ trace'[s] = trace[s]

(* the step belongs to session t: its handler ran, or the chain acted on its *)
(* pending transaction                                                       *)
StepOf(t) == pc'[t] # pc[t] \/ txs'[t] # txs[t]

(* a finished read of the TVL or the balance shape that returned content *)
ValueRead(s) ==
    /\ ReadDone(s) /\ res[s].kind = "content"
    /\ IsTvlShape(split(req[s].uri)) \/ IsBalanceShape(split(req[s].uri))

(* the text a value read reports for on-chain value v *)
ValueText(uri, v) ==
    LET parts == split(uri)
    IN IF IsTvlShape(parts) THEN <<"TVL: ">> \o format_units(v) \o <<" ether">>
       ELSE <<"Balance: ">> \o format_units(v) \o <<" ">> \o parts[7]

(* the three static resources and the text each has *)
StaticUris ==
    {S_evm_networks, JoinWith(<<S_evm, <<>>, S_monadTestnet, S_lsts>>, "/")}
    \cup {JoinWith(<<S_evm, <<>>, S_monadTestnet, S_lsts, t>>, "/") : t \in Tags}

StaticText(u) ==
    IF u = S_evm_networks THEN <<"Supported networks: monadTestnet">>
    ELSE IF Len(split(u)) = 4 THEN S_available
    ELSE description(try_from(split(u)[5]).protocol)

(* the addresses that belong to a protocol *)
AddressesOf(p) ==
    CASE p = "AprMON" -> {APRMON_ADDRESS}
      [] p = "GMON"   -> {GMON_ADDRESS, GMON_STAKEMANAGER_ADDRESS}
      [] p = "SHMON"  -> {SHMON_ADDRESS}

(* the address an operation on protocol p is to use: the token for a balance, the *)
(* contract (gMON: the stake manager) for TVL, stake and unstake                  *)
TargetOf(p, operation) ==
    CASE p = "AprMON" -> APRMON_ADDRESS
      [] p = "SHMON"  -> SHMON_ADDRESS
      [] p = "GMON"   -> IF operation = "balance" THEN GMON_ADDRESS
                                                  ELSE GMON_STAKEMANAGER_ADDRESS

(* 20 bytes of hex, with or without the 0x prefix *)
IsAddressText(a) ==
    \/ Len(a) = 40 /\ \A i \in 1..40 : a[i] \in HexDigits
    \/ Len(a) = 42 /\ a[1] = "0" /\ a[2] = "x" /\ \A i \in 3..42 : a[i] \in HexDigits

FullSteps == <<"parse_key", "parse_amount", "send", "confirmations", "respond">>

-----------------------------------------------------------------------------
(* Properties *)

(* C1: every read_resource request whose URI is not an instance of one of the five *)
(* documented shapes ends with a resource-not-found error, and in no other way.    *)
C1_OtherShapesNotFound ==
    \A s \in Sessions :
        (ReadDone(s) /\ ~InDocumentedShape(req[s].uri)) => IsNotFound(res[s])

(* C2: for each of the five shapes with network monadTestnet, a known protocol tag, *)
(* a well-formed address and a succeeding chain read, read_resource returns the     *)
(* content of that shape, carrying the requested URI unchanged.                     *)
C2_ShapeContent ==
    \A s \in Sessions :
        ReadDone(s) =>
            LET u == req[s].uri
                pre == <<S_evm, <<>>, S_monadTestnet>>
            IN /\ res[s].kind = "content" => res[s].uri = u
               /\ u = S_evm_networks =>
                      res[s] = Content(<<"Supported networks: monadTestnet">>, u)
               /\ u = Uri(pre \o <<S_lsts>>) =>
                      res[s] = Content(S_available, u)
               /\ \A p \in LstProtocol :
                      /\ u = Uri(pre \o <<S_lsts, Display(p)>>) =>
                             res[s] = Content(description(p), u)
                      /\ u = Uri(pre \o <<S_lsts, Display(p), S_tvl>>) =>
                             /\ Len(rpc[s]) = 1
                             /\ rpc[s][1].ok =>
                                    res[s] = Content(<<"TVL: ">> \o format_units(rpc[s][1].value)
                                                     \o <<" ether">>, u)
                      /\ \A a \in {OwnerA, OwnerB} :
                             u = Uri(pre \o <<S_address, a, S_lsts, Display(p), S_balance>>) =>
                                 /\ Len(rpc[s]) = 1
                                 /\ rpc[s][1].args = <<ParseAddress(a).addr>>
                                 /\ rpc[s][1].ok =>
                                        res[s] = Content(<<"Balance: ">>
                                                         \o format_units(rpc[s][1].value)
                                                         \o <<" ">> \o Display(p), u)

C2_Witness ==
    /\ ReadDone("s1")
    /\ req["s1"].uri = Uri(<<S_evm, <<>>, S_monadTestnet, S_lsts, S_shMON, S_tvl>>)
    /\ res["s1"].kind = "content"
    /\ epoch = 1

(* C3: every URI answered with content is an instance of one of the five documented *)
(* evm://... templates, with an empty segment between the two slashes after evm:.   *)
C3_ContentOnlyForShapes ==
    \A s \in Sessions :
        (ReadDone(s) /\ res[s].kind = "content") => InDocumentedShape(req[s].uri)

(* C4: the tag lookup succeeds for exactly the strings aprMON, gMON and shMON, each *)
(* giving its own variant, fails for every other string, and changes nothing else.  *)
C4_TryFromExact ==
    lookup.done =>
        /\ lookup.ok <=> lookup.value \in {S_aprMON, S_gMON, S_shMON}
        /\ lookup.value = S_aprMON => lookup.protocol = "AprMON"
        /\ lookup.value = S_gMON   => lookup.protocol = "GMON"
        /\ lookup.value = S_shMON  => lookup.protocol = "SHMON"
        /\ \A s \in Sessions : txs[s] = <<>> /\ rpc[s] = <<>> /\ pc[s] = "idle"
        /\ epoch = 0

C4_Witness ==
    /\ lookup.done
    /\ ~lookup.ok
    /\ lookup.value = <<"A","p","r","M","O","N">>

(* C5: each protocol resolves to its fixed pair of addresses: aprMON and shMON have *)
(* contract = token = their one address, gMON has the stake manager as contract and *)
(* the gMON token as token address, and these two differ.                           *)
C5_FixedAddresses ==
    (lookup.done /\ lookup.ok) =>
        /\ lookup.protocol = "AprMON" =>
              lookup.address = APRMON_ADDRESS /\ lookup.token_address = APRMON_ADDRESS
        /\ lookup.protocol = "SHMON" =>
              lookup.address = SHMON_ADDRESS /\ lookup.token_address = SHMON_ADDRESS
        /\ lookup.protocol = "GMON" =>
              /\ lookup.address = GMON_STAKEMANAGER_ADDRESS
              /\ lookup.token_address = GMON_ADDRESS
              /\ lookup.address # lookup.token_address

C5_Witness == lookup.done /\ lookup.protocol = "GMON"

(* C6: a stake or unstake invocation whose private key or amount string is rejected *)
(* ends with that validation error without having sent a transaction or issued any  *)
(* RPC request; no invocation ending in a validation error has touched the network. *)
C6_ValidationBeforeNetwork ==
    \A s \in Sessions :
        /\ (req[s].op \in ToolOps /\ (~ParseWallet(req[s].private_key).ok
                                      \/ parse_units(req[s].amount).kind = "err")) =>
               /\ pc[s] = "done"
               /\ res[s].kind = "error" /\ res[s].code = "invalid_params"
        /\ (ToolDone(s) /\ res[s].kind = "error" /\ res[s].code = "invalid_params") =>
               txs[s] = <<>> /\ rpc[s] = <<>>

C6_Witness ==
    /\ ToolDone("s1")
    /\ req["s1"].op = "stake"
    /\ req["s1"].private_key = Key1
    /\ req["s1"].amount = <<"a","b","c">>
    /\ res["s1"].code = "invalid_params"

(* C7: one stake or unstake invocation hands at most one transaction to the chain, *)
(* whatever its outcome.                                                           *)
C7_AtMostOneTx ==
    \A s \in Sessions : Len(txs[s]) <= 1

C7_Witness ==
    /\ ToolDone("s1")
    /\ req["s1"].op = "stake"
    /\ res["s1"].kind = "error"
    /\ Len(txs["s1"]) = 1
    /\ txs["s1"][1].status = "dropped"

(* C8: a success result exists only when the one transaction of the invocation has *)
(* been confirmed and has a receipt, after the steps validate, send, wait, respond *)
(* in this order; a suspended invocation has no result.                            *)
C8_SuccessAfterConfirmation ==
    \A s \in Sessions :
        /\ res[s].kind = "success" =>
               /\ pc[s] = "done"
               /\ Len(txs[s]) = 1
               /\ txs[s][1].status = "confirmed"
               /\ txs[s][1].receipt # NoReceipt
               /\ trace[s] = FullSteps
        /\ pc[s] = "awaiting" => res[s] = NoResult

C8_Witness ==
    /\ ToolDone("s1")
    /\ req["s1"].op = "unstake"
    /\ res["s1"].kind = "success"
    /\ txs["s1"][1].status = "confirmed"

(* C9: a finished stake or unstake invocation has either a success text containing *)
(* the hash of the transaction it submitted, the amount string as supplied and the *)
(* protocol tag, or an MCP error; it never ends with neither.                      *)
C9_SuccessTextOrError ==
    \A s \in Sessions :
        ToolDone(s) =>
            \/ res[s].kind = "error"
            \/ /\ res[s].kind = "success"
               /\ Len(txs[s]) = 1
               /\ IsInfix(encode_prefixed(txs[s][1].hash), res[s].text)
               /\ IsInfix(req[s].amount, res[s].text)
               /\ IsInfix(Display(req[s].protocol), res[s].text)

(* C10: a confirmed-but-receipt-less outcome ends with the internal error "no     *)
(* receipt returned"; a send failure, a revert or a confirmation failure ends with *)
(* an internal error that carries the underlying message.                          *)
C10_InternalErrorCarriesCause ==
    \A s \in Sessions :
        (ToolDone(s) /\ txs[s] # <<>>) =>
            LET tx == txs[s][1]
            IN /\ tx.status = "dropped" =>
                      /\ res[s].kind = "error" /\ res[s].code = "internal_error"
                      /\ IsInfix(<<"Staking failed: no receipt returned">>, res[s].text)
               /\ tx.status \in {"send_failed", "poll_failed"} =>
                      /\ res[s].kind = "error" /\ res[s].code = "internal_error"
                      /\ \E net \in NetOutcomes \ {"ok"} : IsInfix(NetError(net), res[s].text)

C12_ReadFailureCarriesCause ==
    \A s \in Sessions :
        (ReadDone(s) /\ rpc[s] # <<>> /\ ~rpc[s][1].ok) =>
            /\ IsInternalError(res[s])
            /\ \E net \in NetOutcomes \ {"ok"} : IsInfix(NetError(net), res[s].text)

(* C13: for every 256-bit unsigned integer n, formatting n at 18 decimals and *)
(* parsing the text back at 18 decimals gives exactly n.                      *)
C13_AmountRoundTrip ==
    /\ conv.stage \in {"text", "parsed"} =>
           /\ Len(conv.text) >= EtherDecimals + 2
           /\ conv.text[Len(conv.text) - EtherDecimals] = "."
    /\ conv.stage = "parsed" =>
           /\ conv.out.kind = "ok"
           /\ conv.out.value = conv.n

C13_Witness ==
    /\ conv.stage = "parsed"
    /\ conv.n = U256_MAX
    /\ conv.out.value = U256_MAX

(* C14: the integer amount of the transaction a stake or unstake submits is the   *)
(* decimal value of the amount string times 10^18 exactly, and an amount string   *)
(* with no exact unsigned 256-bit value at 18 decimals (more than 18 fractional   *)
(* digits, negative, too large, not a number) is rejected with invalid params     *)
(* whenever the private key is valid.                                             *)
C14_ExactAmount ==
    \A s \in Sessions :
        (req[s].op \in ToolOps /\ ParseWallet(req[s].private_key).ok) =>
            /\ txs[s] # <<>> =>
                   /\ Representable(req[s].amount)
                   /\ TxAmount(txs[s][1]) = ExactWei(req[s].amount)
            /\ ~Representable(req[s].amount) =>
                   pc[s] = "done" /\ IsInvalidParams(res[s])

(* C15: under every interleaving of the invocations of two sessions, each           *)
(* invocation's result and the transaction it submits (signer, target, amount,      *)
(* value) are those it has when run alone on its own arguments, and a step of one   *)
(* invocation (its handler running, or the chain acting on its transaction) leaves  *)
(* every other invocation's state unchanged: nothing is written by one and read by  *)
(* another.                                                                         *)
C15_SessionsIndependent ==
    /\ [](\A s \in Sessions : AsIfAlone(s))
    /\ [][\A s, t \in Sessions : (s # t /\ StepOf(t)) => Untouched(s)]_vars

C15_Witness ==
    /\ pc["s1"] = "done" /\ pc["s2"] = "done"
    /\ req["s1"].op = "stake" /\ req["s2"].op = "unstake"
    /\ req["s1"].private_key = Key1 /\ req["s2"].private_key = Key2
    /\ req["s1"].amount # req["s2"].amount
    /\ req["s1"].protocol # req["s2"].protocol
    /\ res["s1"].kind = "success" /\ IsInternalError(res["s2"])
    /\ txs["s1"][1].from # txs["s2"][1].from

(* C16: an invocation that has sent its transaction leaves its suspension only   *)
(* when the chain client has reported on that transaction (a confirmation, a     *)
(* missing receipt or an error), and then by returning; while the transaction is *)
(* pending it has no result, however long that lasts; once the chain client has  *)
(* reported, the invocation eventually returns a success or an error.            *)
C16_SuspendedUntilReported ==
    /\ [][\A s \in Sessions :
              (pc[s] = "awaiting" /\ pc'[s] # "awaiting") =>
                  (LastTx(s).status # "pending" /\ pc'[s] = "done")]_vars
    /\ [](\A s \in Sessions :
              (pc[s] = "awaiting" /\ LastTx(s).status = "pending") => res[s] = NoResult)
    /\ \A s \in Sessions :
           (pc[s] = "awaiting" /\ LastTx(s).status # "pending")
               ~> (pc[s] = "done" /\ res[s].kind \in {"success", "error"})

C16_Witness ==
    /\ pc["s1"] = "done" /\ req["s1"].op = "unstake"
    /\ txs["s1"][1].status = "poll_failed" /\ IsInternalError(res["s1"])
    /\ pc["s2"] = "awaiting" /\ LastTx("s2").status = "pending"

(* C17: no read_resource, list_resources or list_resource_templates invocation,   *)
(* whatever its URI and outcome, submits a transaction or changes the chain: what *)
(* it sends to the endpoint are eth_call requests only, the step that serves it   *)
(* leaves the chain state and every transaction as they were, and a transaction   *)
(* exists only for a stake or unstake invocation.                                 *)
C17_ReadsAreReadOnly ==
    /\ [](\A s \in Sessions :
              /\ req[s].op \in ReadOps =>
                     /\ txs[s] = <<>>
                     /\ \A i \in 1..Len(rpc[s]) : rpc[s][i].method = "eth_call"
              /\ txs[s] # <<>> => req[s].op \in ToolOps)
    /\ [][\A s \in Sessions :
              (pc[s] = "idle" /\ req'[s].op \in ReadOps) =>
                  (epoch' = epoch /\ txs' = txs)]_vars

C17_Witness ==
    /\ ReadDone("s1")
    /\ res["s1"].kind = "content"
    /\ Len(rpc["s1"]) = 1
    /\ rpc["s1"][1].fn = "balanceOf"
    /\ txs["s1"] = <<>>

(* C18: every successful read of the TVL or the balance shape issues its own chain *)
(* read, evaluated on the chain state of the moment of the read, and reports the   *)
(* value that state holds; two reads of the same URI made at chain states that     *)
(* hold different values report the old and the new value respectively.            *)
C18_ReadsAreFresh ==
    /\ [][\A s \in Sessions :
              (pc[s] = "idle" /\ ValueRead(s)') =>
                  /\ Len(rpc'[s]) = 1
                  /\ rpc'[s][1].block = epoch
                  /\ res'[s].text =
                        ValueText(req'[s].uri,
                                  ChainCall(rpc'[s][1].to, rpc'[s][1].fn, rpc'[s][1].args, epoch))]_vars
    /\ [](\A s, t \in Sessions :
              (ValueRead(s) /\ ValueRead(t) /\ req[s].uri = req[t].uri) =>
                  LET at(r) == ChainCall(rpc[r][1].to, rpc[r][1].fn, rpc[r][1].args,
                                         rpc[r][1].block)
                  IN /\ res[s].text = ValueText(req[s].uri, at(s))
                     /\ at(s) # at(t) => res[s].text # res[t].text)

C18_Witness ==
    /\ ValueRead("s1") /\ ValueRead("s2")
    /\ req["s1"].uri = req["s2"].uri
    /\ rpc["s1"][1].block = 0 /\ rpc["s2"][1].block = 1
    /\ rpc["s1"][1].fn = "calculateTVL"
    /\ res["s1"].text # res["s2"].text

(* C19: for every URI other than the exact string evm://networks whose first       *)
(* segment is evm: and whose third segment exists and is not monadTestnet,         *)
(* read_resource returns resource-not-found tagged "Unsupported network", whatever *)
(* the remaining segments are, and makes no chain call.                            *)
C19_NetworkFirst ==
    \A s \in Sessions :
        ReadDone(s) =>
            LET u     == req[s].uri
                parts == split(u)
            IN (u # S_evm_networks /\ Len(parts) >= 3 /\ parts[1] = S_evm
                    /\ parts[3] # S_monadTestnet) =>
                   /\ IsNotFound(res[s])
                   /\ res[s].data = [uri |-> u, error |-> <<"Unsupported network">>]
                   /\ rpc[s] = <<>>

C19_Witness ==
    /\ ReadDone("s1")
    /\ req["s1"].uri = Uri(<<S_evm, <<>>, S_mainnet, S_lsts, S_aprMON, S_tvl>>)
    /\ res["s1"].data.error = <<"Unsupported network">>

(* C20: the single transaction a stake submits for protocol p and amount a goes to *)
(* the contract address of p, is signed by the wallet of the supplied key and      *)
(* attaches the native value a; for aprMON and shMON it calls deposit(a, signer)   *)
(* (assets = attached value, receiver = the signer), for gMON it calls             *)
(* depositMon() without arguments on the stake manager.                            *)
C20_StakeDispatch ==
    \A s \in Sessions :
        (req[s].op = "stake" /\ txs[s] # <<>>) =>
            LET tx == txs[s][1]
                a  == parse_units(req[s].amount).value
                p  == req[s].protocol
            IN /\ Len(txs[s]) = 1
               /\ tx.from = WalletAddress(ParseWallet(req[s].private_key).key)
               /\ tx.chain_id = MONAD_TESTNET_CHAIN_ID
               /\ tx.value = a
               /\ p = "AprMON" =>
                      tx.to = APRMON_ADDRESS /\ tx.fn = "deposit" /\ tx.args = <<a, tx.from>>
               /\ p = "SHMON" =>
                      tx.to = SHMON_ADDRESS /\ tx.fn = "deposit" /\ tx.args = <<a, tx.from>>
               /\ p = "GMON" =>
                      /\ tx.to = GMON_STAKEMANAGER_ADDRESS
                      /\ tx.fn = "depositMon" /\ tx.args = <<>>

C20_Witness ==
    /\ req["s1"].op = "stake" /\ req["s1"].protocol = "SHMON"
    /\ req["s1"].amount = <<"0",".","0","0","5">>
    /\ pc["s1"] = "awaiting"
    /\ txs["s1"][1].status = "pending"
    /\ txs["s1"][1].value = <<"5","0","0","0","0","0","0","0","0","0","0","0","0","0","0","0">>

(* C21: the single transaction an unstake submits for protocol p and amount a goes *)
(* to the contract address of p and attaches no native value; aprMON calls         *)
(* requestRedeem(a, signer, signer), gMON calls withdrawMon(a) on the stake        *)
(* manager, shMON calls redeem(a, signer, signer), the signer being the address    *)
(* derived from the supplied private key.                                          *)
C21_UnstakeDispatch ==
    \A s \in Sessions :
        (req[s].op = "unstake" /\ txs[s] # <<>>) =>
            LET tx     == txs[s][1]
                a      == parse_units(req[s].amount).value
                p      == req[s].protocol
                signer == WalletAddress(ParseWallet(req[s].private_key).key)
            IN /\ Len(txs[s]) = 1
               /\ tx.from = signer
               /\ tx.value = <<"0">>
               /\ p = "AprMON" =>
                      /\ tx.to = APRMON_ADDRESS
                      /\ tx.fn = "requestRedeem" /\ tx.args = <<a, signer, signer>>
               /\ p = "GMON" =>
                      /\ tx.to = GMON_STAKEMANAGER_ADDRESS
                      /\ tx.fn = "withdrawMon" /\ tx.args = <<a>>
               /\ p = "SHMON" =>
                      /\ tx.to = SHMON_ADDRESS
                      /\ tx.fn = "redeem" /\ tx.args = <<a, signer, signer>>

C21_Witness ==
    /\ req["s1"].op = "unstake" /\ req["s1"].protocol = "GMON"
    /\ req["s1"].amount = <<"1",".","5">>
    /\ pc["s1"] = "awaiting"
    /\ txs["s1"][1].status = "pending"
    /\ txs["s1"][1].args = << <<"1","5","0","0","0","0","0","0","0","0","0","0","0","0","0","0","0","0","0">> >>

(* C22: reading evm://networks, evm://monadTestnet/lsts or evm://monadTestnet/lsts/p *)
(* for a known p makes no chain call and succeeds with a content that depends on the *)
(* URI alone: it is the same at every chain state, for every state of the endpoint   *)
(* and after any earlier invocations.                                                *)
C22_StaticResources ==
    \A s \in Sessions :
        (ReadDone(s) /\ req[s].uri \in StaticUris) =>
            /\ rpc[s] = <<>>
            /\ txs[s] = <<>>
            /\ res[s] = Content(StaticText(req[s].uri), req[s].uri)

C22_Witness ==
    /\ ReadDone("s1")
    /\ req["s1"].uri = JoinWith(<<S_evm, <<>>, S_monadTestnet, S_lsts>>, "/")
    /\ res["s1"].kind = "content"
    /\ epoch = 1
    /\ ncalls = 2

(* C23: for gMON the balance is read from the token contract and TVL, stake and   *)
(* unstake go to the stake manager; for aprMON and shMON all four use the one     *)
(* address of the protocol; no operation on a protocol touches an address of      *)
(* another protocol.                                                              *)
C23_OwnAddressesOnly ==
    \A s \in Sessions :
        /\ (ReadDone(s) /\ rpc[s] # <<>>) =>
               LET parts == split(req[s].uri)
                   p     == try_from(IF IsBalanceShape(parts) THEN parts[7] ELSE parts[5]).protocol
                   op    == IF IsBalanceShape(parts) THEN "balance" ELSE "tvl"
               IN /\ IsBalanceShape(parts) \/ IsTvlShape(parts)
                  /\ \A i \in 1..Len(rpc[s]) :
                         /\ rpc[s][i].to = TargetOf(p, op)
                         /\ \A q \in LstProtocol \ {p} : rpc[s][i].to \notin AddressesOf(q)
        /\ (req[s].op \in ToolOps /\ txs[s] # <<>>) =>
               \A i \in 1..Len(txs[s]) :
                   /\ txs[s][i].to = TargetOf(req[s].protocol, req[s].op)
                   /\ \A q \in LstProtocol \ {req[s].protocol} :
                          txs[s][i].to \notin AddressesOf(q)

C23_Witness ==
    /\ ReadDone("s1")
    /\ req["s1"].uri = Uri(<<S_evm, <<>>, S_monadTestnet, S_address, OwnerB, S_lsts, S_gMON, S_balance>>)
    /\ Len(rpc["s1"]) = 1
    /\ rpc["s1"][1].to = GMON_ADDRESS

(* C24: stake and unstake validate the private key before the amount: with a     *)
(* malformed key the error is the private-key error whatever the amount is, and  *)
(* the amount error is returned only when the key is well formed.                *)
C24_KeyBeforeAmount ==
    \A s \in Sessions :
        req[s].op \in ToolOps =>
            /\ ~ParseWallet(req[s].private_key).ok =>
                   /\ pc[s] = "done"
                   /\ IsInvalidParams(res[s])
                   /\ res[s].text[1] = "Failed to parse private key: "
                   /\ trace[s] = <<"parse_key">>
            /\ (IsInvalidParams(res[s]) /\ res[s].text[1] = "Failed to parse amount '") =>
                   /\ ParseWallet(req[s].private_key).ok
                   /\ parse_units(req[s].amount).kind = "err"
                   /\ trace[s] = <<"parse_key", "parse_amount">>

C24_Witness ==
    /\ ToolDone("s1")
    /\ req["s1"].op = "unstake"
    /\ req["s1"].private_key = Rep("z", 64)
    /\ req["s1"].amount = <<"1","e","1","8">>
    /\ res["s1"].text[1] = "Failed to parse private key: "

(* C25: in the balance shape the address is validated before the protocol tag and *)
(* both before any chain call: a malformed address gives invalid_address whatever *)
(* the tag is, a well-formed address with an unknown tag gives the protocol       *)
(* invalid-params error, and neither issues a chain read; in the TVL shape an     *)
(* unknown tag issues no chain read.                                              *)
C25_AddressBeforeTag ==
    \A s \in Sessions :
        ReadDone(s) =>
            LET parts == split(req[s].uri)
            IN /\ (IsBalanceShape(parts) /\ ~IsAddressText(parts[5])) =>
                      /\ IsInvalidParams(res[s])
                      /\ res[s].text = <<"invalid_address">>
                      /\ res[s].data.uri = req[s].uri
                      /\ rpc[s] = <<>>
               /\ (IsBalanceShape(parts) /\ IsAddressText(parts[5])
                       /\ parts[7] \notin Tags) =>
                      /\ IsInvalidParams(res[s])
                      /\ res[s].text = <<"Failed to parse protocol: ", "Invalid LST protocol">>
                      /\ rpc[s] = <<>>
               /\ (IsTvlShape(parts) /\ parts[5] \notin Tags) =>
                      rpc[s] = <<>> /\ res[s].kind = "error"

C25_Witness ==
    /\ ReadDone("s1")
    /\ req["s1"].uri = Uri(<<S_evm, <<>>, S_monadTestnet, S_address, BadOwner,
                             S_lsts, S_gmon_lower, S_balance>>)
    /\ res["s1"].text = <<"invalid_address">>
    /\ rpc["s1"] = <<>>

(* C26: for every protocol p, parsing the displayed tag of p gives p, and for every *)
(* string accepted by try_from, displaying the result gives that string; so the tag *)
(* echoed in a stake / unstake result text and in a balance text is one the router  *)
(* and the tools accept.                                                            *)
C26_TagRoundTrip ==
    /\ (lookup.done /\ lookup.ok) => Display(lookup.protocol) = lookup.value
    /\ \A p \in LstProtocol :
           (lookup.done /\ lookup.value = Display(p)) => (lookup.ok /\ lookup.protocol = p)
    /\ lookup.echoed =>
           /\ lookup.shown = lookup.value
           /\ lookup.again = lookup.protocol
           /\ lookup.tool = lookup.protocol
           /\ IsInfix(lookup.value,
                      StakeSuccessText(<<"1">>, lookup.protocol,
                                       [transaction_hash |-> Rep("a", 64)]))
           /\ IsInfix(lookup.value,
                      UnstakeSuccessText(<<"1">>, lookup.protocol,
                                         [transaction_hash |-> Rep("a", 64)]))

C26_Witness ==
    /\ lookup.echoed
    /\ lookup.protocol = "GMON"
    /\ lookup.shown = S_gMON
    /\ lookup.again = "GMON"

(* the names a listing text lists: what follows its heading, split at ", " *)
ListedNames(text) ==
    LET body   == Tail(text)
        seps   == {i \in 1..Len(body) : body[i] = ", "}
        n      == Cardinality(seps)
        sep(k) == IF k = 0 THEN 0
                  ELSE IF k = n + 1 THEN Len(body) + 1
                  ELSE CHOOSE i \in seps : Cardinality({j \in seps : j < i}) = k - 1
    IN {SubSeq(body, sep(k - 1) + 1, sep(k) - 1) : k \in 1..(n + 1)}

(* a URI template with its variables replaced *)
Instantiate(template, network, lst, addr) ==
    LET segs == split(template)
    IN JoinWith([k \in 1..Len(segs) |->
                    CASE segs[k] = S_tpl_network -> network
                      [] segs[k] = S_tpl_lst     -> lst
                      [] segs[k] = S_tpl_address -> addr
                      [] OTHER                   -> segs[k]], "/")

(* u is an instance of one of the templates, a variable standing for one segment *)
Advertised(u, templates) ==
    \E i \in 1..Len(templates) :
        LET t == split(templates[i])
            p == split(u)
        IN /\ Len(t) = Len(p)
           /\ \A k \in 1..Len(t) :
                  t[k] \in {S_tpl_network, S_tpl_lst, S_tpl_address} \/ t[k] = p[k]

(* C27: the advertised resources and the router agree: the names in the listing text *)
(* of evm://monadTestnet/lsts are the tags try_from accepts; the URI list_resources  *)
(* returns is readable; every template of list_resource_templates, instantiated with *)
(* monadTestnet, a known protocol and a well-formed address, is a shape the router   *)
(* recognises; every parameterised shape the router recognises is advertised.        *)
C27_AdvertisedAgreesWithRouter ==
    \A s \in Sessions :
        /\ (ReadDone(s) /\ req[s].uri = Uri(<<S_evm, <<>>, S_monadTestnet, S_lsts>>)) =>
               /\ res[s].kind = "content"
               /\ ListedNames(res[s].text) = {v \in TagInputs : try_from(v).ok}
        /\ (pc[s] = "done" /\ req[s].op = "list_resources") =>
               \A i \in 1..Len(res[s].text) :
                   read_resource(res[s].text[i], "ok", epoch).res.kind = "content"
        /\ (pc[s] = "done" /\ req[s].op = "list_resource_templates") =>
               \A i \in 1..Len(res[s].text) : \A p \in Tags : \A a \in {OwnerA, OwnerB} :
                   read_resource(Instantiate(res[s].text[i], S_monadTestnet, p, a),
                                 "ok", epoch).res.kind = "content"
        /\ (/\ ReadDone(s) /\ res[s].kind = "content"
            /\ InDocumentedShape(req[s].uri) /\ req[s].uri # S_evm_networks) =>
               Advertised(req[s].uri, list_resource_templates.res.text)

(* the address arguments of a call: every argument after the amount *)
Receivers(tx) == {tx.args[k] : k \in 2..Len(tx.args)}

(* C28: every transaction submitted by stake or unstake is signed by the wallet    *)
(* derived from the private key supplied in that invocation, with chain id 10143,  *)
(* and the signer address passed to the contract call is the address of that same  *)
(* wallet; none is signed for another chain id or names a receiver other than the  *)
(* signer.                                                                         *)
C28_SignedByOwnKey ==
    \A s \in Sessions :
        \A i \in 1..Len(txs[s]) :
            LET tx == txs[s][i]
                w  == ParseWallet(req[s].private_key)
            IN /\ req[s].op \in ToolOps
               /\ w.ok
               /\ tx.from = WalletAddress(w.key)
               /\ tx.chain_id = 10143
               /\ tx.chain_id = MONAD_TESTNET_CHAIN_ID
               /\ Receivers(tx) \subseteq {tx.from}

C28_Witness ==
    /\ req["s1"].op = "unstake" /\ req["s1"].protocol = "AprMON"
    /\ req["s2"].op = "stake" /\ req["s2"].protocol = "AprMON"
    /\ req["s1"].private_key # req["s2"].private_key
    /\ txs["s1"] # <<>> /\ txs["s2"] # <<>>
    /\ txs["s1"][1].from # txs["s2"][1].from
    /\ Receivers(txs["s1"][1]) = {txs["s1"][1].from}
    /\ Receivers(txs["s2"][1]) = {txs["s2"][1].from}
    /\ txs["s1"][1].chain_id = 10143

(* the response of the same invocation made with private key k, its transaction *)
(* being given the hash h and confirmed with a receipt                          *)
WithKey(r, k, h) ==
    LET b     == IF r.op = "stake"
                 THEN Lst_stake_begin(r.protocol, k, r.amount, "ok", h)
                 ELSE Lst_unstake_begin(r.protocol, k, r.amount, "ok", h)
        mined == [b.txs[1] EXCEPT !.status = "confirmed",
                                  !.receipt = <<[transaction_hash |-> h]>>]
    IN IF r.op = "stake"
       THEN Lst_stake_finish(r.protocol, r.amount, mined)
       ELSE Lst_unstake_finish(r.protocol, r.amount, mined)

(* C29: the private key does not flow into the success text, which consists only of  *)
(* the amount string, the protocol tag and the transaction hash: an invocation that  *)
(* differs only in the private key and obtains a receipt with the same transaction   *)
(* hash returns the identical success text, and its transaction differs only in the  *)
(* signer and the signer's address.                                                  *)
C29_KeyNotInOutput ==
    \A s \in Sessions :
        (ToolDone(s) /\ res[s].kind = "success") =>
            LET r  == req[s]
                tx == txs[s][1]
            IN /\ res[s].text =
                      <<IF r.op = "stake" THEN "Staked " ELSE "Unstaked ">>
                      \o r.amount \o <<" ">> \o Display(r.protocol)
                      \o <<" tokens successfully. Transaction hash: ">>
                      \o <<"0", "x">> \o tx.hash
               /\ \A k \in PrivateKeyInputs :
                      ParseWallet(k).ok =>
                          LET other == WithKey(r, k, tx.hash)
                          IN /\ other.pc = "done"
                             /\ other.res = res[s]
                             /\ other.txs[1].to = tx.to
                             /\ other.txs[1].fn = tx.fn
                             /\ other.txs[1].value = tx.value
                             /\ TxAmount(other.txs[1]) = TxAmount(tx)

C29_Witness ==
    /\ ToolDone("s1")
    /\ req["s1"].op = "stake"
    /\ req["s1"].private_key = Key2
    /\ res["s1"].kind = "success"
    /\ WithKey(req["s1"], Key1, txs["s1"][1].hash).txs[1].from # txs["s1"][1].from

====
